---------------------------- MODULE Spec2Model ----------------------------
(***************************************************************************)
(* The Texas residential blueprinting tool: the seven-layer constraint     *)
(* engine (ConstraintEngine, static/blueprinting/js/constraints.js), its   *)
(* reference tables (static/blueprinting/js/jurisdictions.js) and the      *)
(* application controller that owns the project and re-runs the engine on  *)
(* every change (unnamed/part_003).                                        *)
(*                                                                         *)
(* Conventions.  Lengths are integer feet.  A JS string built from a       *)
(* template is the tuple <<tag, interpolated values...>>; null is <<>>.    *)
(* A room id "r" + Date.now() is the clock value it was built from.  A     *)
(* ratio limit such as 0.80 is kept in percent and compared by cross       *)
(* multiplication, a falsy table entry (null) is 0.                        *)
(***************************************************************************)
EXTENDS Integers, Sequences, FiniteSets, TLC

VARIABLES
    project,       \* the project object of the application controller
    selectedRoom,  \* canvas.selectedRoom: 0 (null) or an index into project.rooms
    results,       \* engine.results: the array of the engine instance
    lastCall,      \* the last call of engine.check: its argument and its return value
    prevCall,      \* the call of engine.check before that one
    rendered,      \* the result array last handed to renderConstraints
    overall,       \* the status class of the constraint-overall badge
    canvas,        \* the FloorPlanCanvas: view state and interaction state
    lastEvent      \* the last canvas event: its input and the state it found

vars == <<project, selectedRoom, results, lastCall, prevCall, rendered, overall,
          canvas, lastEvent>>

NoCall == [called |-> FALSE]

NoEvent ==
    [ kind |-> "none", views |-> 0, edits |-> 0, downs |-> 0, afterUp |-> FALSE,
      anchor |-> [null |-> TRUE] ]

\* an event outside the canvas: the counts of canvas events so far are kept
PanelEvent ==
    [NoEvent EXCEPT !.views = lastEvent.views, !.edits = lastEvent.edits,
                    !.downs = lastEvent.downs, !.anchor = lastEvent.anchor]

-----------------------------------------------------------------------------
(* Reference tables                                                        *)

JURISDICTIONS ==
    [ houston |->
        [ name |-> "Houston", energyCode |-> "IECC 2015",
          requiresPESealedFoundation |-> TRUE, requiresSurvey |-> TRUE,
          minLotSize |-> 3000,
          setbacks |-> [front |-> 25, rear |-> 5, sideInterior |-> 5, sideCorner |-> 10],
          maxLotCoverage |-> 80, maxHeight |-> 35,
          foundationNotes |-> "PE-sealed foundation plans required for all new residential construction",
          localAmendments |-> 3, floodZone |-> TRUE,
          floodRequirements |-> "Chapter 19 floodplain regulations" ],
      austin |->
        [ name |-> "Austin", energyCode |-> "IECC 2021 (Austin Energy Code)",
          requiresPESealedFoundation |-> TRUE, requiresSurvey |-> TRUE,
          minLotSize |-> 3000,
          setbacks |-> [front |-> 25, rear |-> 10, sideInterior |-> 5, sideCorner |-> 15],
          maxLotCoverage |-> 45, maxHeight |-> 35,
          foundationNotes |-> "PE-sealed foundation plans required; geotechnical report recommended",
          localAmendments |-> 4, floodZone |-> TRUE,
          floodRequirements |-> "Atlas 14 flood standards" ],
      dallas |->
        [ name |-> "Dallas", energyCode |-> "IECC 2015",
          requiresPESealedFoundation |-> TRUE, requiresSurvey |-> TRUE,
          minLotSize |-> 3000,
          setbacks |-> [front |-> 25, rear |-> 5, sideInterior |-> 5, sideCorner |-> 15],
          maxLotCoverage |-> 60, maxHeight |-> 36,
          foundationNotes |-> "PE-sealed foundation plan required; soil report may be required",
          localAmendments |-> 2, floodZone |-> TRUE,
          floodRequirements |-> "FEMA floodplain compliance required" ],
      san_antonio |->
        [ name |-> "San Antonio", energyCode |-> "IECC 2015",
          requiresPESealedFoundation |-> TRUE, requiresSurvey |-> TRUE,
          minLotSize |-> 3000,
          setbacks |-> [front |-> 25, rear |-> 5, sideInterior |-> 5, sideCorner |-> 10],
          maxLotCoverage |-> 65, maxHeight |-> 35,
          foundationNotes |-> "PE-sealed foundation required; Edwards Aquifer zone",
          localAmendments |-> 3, floodZone |-> TRUE,
          floodRequirements |-> "FEMA floodplain compliance; no-rise certification" ],
      fort_worth |->
        [ name |-> "Fort Worth", energyCode |-> "IECC 2015",
          requiresPESealedFoundation |-> TRUE, requiresSurvey |-> TRUE,
          minLotSize |-> 3000,
          setbacks |-> [front |-> 25, rear |-> 5, sideInterior |-> 5, sideCorner |-> 15],
          maxLotCoverage |-> 55, maxHeight |-> 35,
          foundationNotes |-> "PE-sealed foundation required for new construction",
          localAmendments |-> 1, floodZone |-> TRUE,
          floodRequirements |-> "Trinity River Vision floodplain requirements" ],
      unincorporated |->
        [ name |-> "Unincorporated Area (County)", energyCode |-> "IECC 2015 (state minimum)",
          requiresPESealedFoundation |-> FALSE, requiresSurvey |-> FALSE,
          minLotSize |-> 0,
          setbacks |-> [front |-> 0, rear |-> 0, sideInterior |-> 0, sideCorner |-> 0],
          maxLotCoverage |-> 100, maxHeight |-> 0,
          foundationNotes |-> "No PE requirement for single-family under state exemption thresholds",
          localAmendments |-> 2, floodZone |-> FALSE,
          floodRequirements |-> "FEMA requirements apply regardless of incorporation status" ] ]

BUILDING_TYPES ==
    ("single-family" :> [label |-> "Single-Family Residence", maxUnits |-> 1]) @@
    ("duplex"   :> [label |-> "Duplex", maxUnits |-> 2]) @@
    ("triplex"  :> [label |-> "Triplex", maxUnits |-> 3]) @@
    ("fourplex" :> [label |-> "Fourplex", maxUnits |-> 4]) @@
    ("adu"      :> [label |-> "Accessory Dwelling Unit", maxUnits |-> 1]) @@
    ("garage"   :> [label |-> "Detached Garage / Storage", maxUnits |-> 0]) @@
    ("townhome" :> [label |-> "Townhome", maxUnits |-> 1])

ROOM_TYPES ==
    [ living      |-> [label |-> "Living Room", minArea |-> 120, minDimension |-> 10, requiresEgress |-> FALSE, exterior |-> FALSE],
      bedroom     |-> [label |-> "Bedroom", minArea |-> 70, minDimension |-> 7, requiresEgress |-> TRUE, exterior |-> FALSE],
      kitchen     |-> [label |-> "Kitchen", minArea |-> 50, minDimension |-> 5, requiresEgress |-> FALSE, exterior |-> FALSE],
      bathroom    |-> [label |-> "Bathroom", minArea |-> 35, minDimension |-> 5, requiresEgress |-> FALSE, exterior |-> FALSE],
      dining      |-> [label |-> "Dining Room", minArea |-> 80, minDimension |-> 8, requiresEgress |-> FALSE, exterior |-> FALSE],
      garage_room |-> [label |-> "Garage", minArea |-> 200, minDimension |-> 10, requiresEgress |-> FALSE, exterior |-> FALSE],
      laundry     |-> [label |-> "Laundry", minArea |-> 20, minDimension |-> 4, requiresEgress |-> FALSE, exterior |-> FALSE],
      closet      |-> [label |-> "Closet", minArea |-> 6, minDimension |-> 2, requiresEgress |-> FALSE, exterior |-> FALSE],
      hallway     |-> [label |-> "Hallway", minArea |-> 0, minDimension |-> 3, requiresEgress |-> FALSE, exterior |-> FALSE],
      utility     |-> [label |-> "Utility / Mechanical", minArea |-> 12, minDimension |-> 3, requiresEgress |-> FALSE, exterior |-> FALSE],
      porch       |-> [label |-> "Porch / Patio", minArea |-> 0, minDimension |-> 4, requiresEgress |-> FALSE, exterior |-> TRUE] ]

TX_STATE ==
    [ architectExemptionMaxUnits |-> 4,
      architectExemptionMaxStories_withCode |-> 2,
      architectExemptionMaxStories_2unit |-> 3,
      engineerExemptionMaxUnits |-> 4,
      engineerExemptionMaxStories |-> 2,
      peClearSpanThreshold |-> 24,
      peSingleStoryAreaThreshold |-> 5000,
      minHallwayWidth |-> 3,
      sb15PopulationThreshold |-> 250000 ]

\* a variant whose fallback is the first entry of the table
LookupJurisdiction_FirstEntry(key) ==
    IF key \in DOMAIN JURISDICTIONS THEN JURISDICTIONS[key]
    ELSE JURISDICTIONS.houston

\* JURISDICTIONS[project.jurisdiction] || JURISDICTIONS.unincorporated
LookupJurisdiction(key) ==
    IF key \in DOMAIN JURISDICTIONS THEN JURISDICTIONS[key]
    ELSE JURISDICTIONS.unincorporated

\* BUILDING_TYPES[project.buildingType] || BUILDING_TYPES["single-family"]
LookupBuildingType(key) ==
    IF key \in DOMAIN BUILDING_TYPES THEN BUILDING_TYPES[key]
    ELSE BUILDING_TYPES["single-family"]

-----------------------------------------------------------------------------
(* Arithmetic helpers                                                      *)

Min(a, b) == IF a < b THEN a ELSE b
Max(a, b) == IF a > b THEN a ELSE b

\* x || d for a number x: 0 is falsy
OrDefault(x, d) == IF x = 0 THEN d ELSE x

\* (100 * a / b).toFixed(0) for b > 0, a >= 0: nearest integer, halves up
Percent(a, b) == (200 * a + b) \div (2 * b)

\* one result record, as pushed on this.results
Result(id, name, layer, status, message, witness, resolution) ==
    [ id |-> id, name |-> name, layer |-> layer, status |-> status,
      message |-> message, witness |-> witness, resolution |-> resolution ]

\* room.label || room.id
LabelOrId(room) ==
    IF room.label # "" THEN <<room.label>> ELSE <<"r", room.id>>

\* ROOM_TYPES[r.type]?.exterior
IsExterior(room) ==
    room.type \in DOMAIN ROOM_TYPES /\ ROOM_TYPES[room.type].exterior


-----------------------------------------------------------------------------
(* Utility calculations of the engine                                      *)

RECURSIVE SumArea(_, _)
SumArea(rooms, i) ==
    IF i > Len(rooms) THEN 0
    ELSE (IF IsExterior(rooms[i]) THEN 0 ELSE rooms[i].width * rooms[i].height)
         + SumArea(rooms, i + 1)

calcTotalArea(p) == SumArea(p.rooms, 1)

RECURSIVE SpanFrom(_, _, _)
SpanFrom(rooms, i, max) ==
    IF i > Len(rooms) THEN max
    ELSE SpanFrom(rooms, i + 1,
                  IF IsExterior(rooms[i]) THEN max
                  ELSE Max(max, Min(rooms[i].width, rooms[i].height)))

calcMaxSpan(p) == SpanFrom(p.rooms, 1, 0)

RECURSIVE SumWindow(_, _)
SumWindow(rooms, i) ==
    IF i > Len(rooms) THEN 0 ELSE rooms[i].windowArea + SumWindow(rooms, i + 1)

calcWindowArea(p) == SumWindow(p.rooms, 1)

\* the rooms the bounding-box loops do not skip
Interior(rooms) == { i \in 1..Len(rooms) : ~IsExterior(rooms[i]) }

SetMin(S) == CHOOSE m \in S : \A n \in S : m <= n
SetMax(S) == CHOOSE m \in S : \A n \in S : m >= n

\* the bounding box of the non-exterior rooms; only used when Interior(rooms) # {}
BoundingBox(rooms) ==
    [ minX |-> SetMin({ rooms[i].x : i \in Interior(rooms) }),
      maxX |-> SetMax({ rooms[i].x + rooms[i].width : i \in Interior(rooms) }),
      minY |-> SetMin({ rooms[i].y : i \in Interior(rooms) }),
      maxY |-> SetMax({ rooms[i].y + rooms[i].height : i \in Interior(rooms) }) ]

calcExteriorWallArea(p) ==
    IF Len(p.rooms) = 0 \/ Interior(p.rooms) = {} THEN 0
    ELSE LET b == BoundingBox(p.rooms)
         IN  2 * ((b.maxX - b.minX) + (b.maxY - b.minY)) * 9

-----------------------------------------------------------------------------
(* L1: Architect Exemption.  Returns on the first condition that matches.  *)

L1Units(buildingType) ==
    Result(<<"L1-units">>, "Architect Exemption", 1, "fail",
        <<"Building exceeds 4 dwelling units">>,
        <<"units", buildingType.label, buildingType.maxUnits, TX_STATE.architectExemptionMaxUnits>>,
        <<"Engage a Texas-licensed architect">>)

L1Stories(stories, buildingType) ==
    Result(<<"L1-stories">>, "Architect Exemption", 1, "fail",
        <<"exceeds architect exemption limit", stories, buildingType.label>>,
        <<"1-2 family", TX_STATE.architectExemptionMaxStories_2unit, stories>>,
        <<"Reduce to 3 stories or fewer">>)

L1StoriesMulti(stories, buildingType) ==
    Result(<<"L1-stories-multi">>, "Architect Exemption", 1, "fail",
        <<"exceeds architect exemption for 3-4 unit buildings", stories, buildingType.label>>,
        <<"3-4 unit", TX_STATE.architectExemptionMaxStories_withCode, stories>>,
        <<"Reduce to 2 stories">>)

L1Municipality(buildingType) ==
    Result(<<"L1-municipality">>, "Architect Exemption", 1, "warn",
        <<"3-4 unit exemption requires municipality with adopted building code">>,
        <<"unincorporated", buildingType.label>>,
        <<"Verify your area has adopted a building code">>)

L1Pass(stories, buildingType) ==
    Result(<<"L1">>, "Architect Exemption", 1, "pass",
        <<"qualifies for architect exemption", buildingType.label, stories>>,
        <<>>, <<>>)

\* a variant that tests the municipality before the story limit of 3-4 unit buildings
checkL1_MunicipalityFirst(res, p, jurisdiction, buildingType) ==
    LET units   == buildingType.maxUnits
        stories == OrDefault(p.stories, 1)
    IN
    IF units > TX_STATE.architectExemptionMaxUnits THEN
        Append(res, L1Units(buildingType))
    ELSE IF units <= 2 /\ stories > TX_STATE.architectExemptionMaxStories_2unit THEN
        Append(res, L1Stories(stories, buildingType))
    ELSE IF units > 2 /\ jurisdiction.name = "Unincorporated Area (County)" THEN
        Append(res, L1Municipality(buildingType))
    ELSE IF units > 2 /\ stories > TX_STATE.architectExemptionMaxStories_withCode THEN
        Append(res, L1StoriesMulti(stories, buildingType))
    ELSE
        Append(res, L1Pass(stories, buildingType))

checkL1_ArchitectExemption(res, p, jurisdiction, buildingType) ==
    LET units   == buildingType.maxUnits
        stories == OrDefault(p.stories, 1)
    IN
    IF units > TX_STATE.architectExemptionMaxUnits THEN
        Append(res, L1Units(buildingType))
    ELSE IF units <= 2 /\ stories > TX_STATE.architectExemptionMaxStories_2unit THEN
        Append(res, L1Stories(stories, buildingType))
    ELSE IF units > 2 /\ stories > TX_STATE.architectExemptionMaxStories_withCode THEN
        Append(res, L1StoriesMulti(stories, buildingType))
    ELSE IF units > 2 /\ jurisdiction.name = "Unincorporated Area (County)" THEN
        Append(res, L1Municipality(buildingType))
    ELSE
        Append(res, L1Pass(stories, buildingType))

-----------------------------------------------------------------------------
(* L2: PE Requirement.  Every failing condition appends its own record.    *)

L2Issues(p, buildingType) ==
    LET stories   == OrDefault(p.stories, 1)
        units     == buildingType.maxUnits
        totalArea == calcTotalArea(p)
        maxSpan   == calcMaxSpan(p)
    IN
    (IF stories > TX_STATE.engineerExemptionMaxStories THEN
        << Result(<<"L2-stories">>, "PE Requirement - Stories", 2, "fail",
            <<"requires PE-sealed structural plans", stories>>,
            <<"stories", TX_STATE.engineerExemptionMaxStories, stories>>,
            <<"Engage a licensed Professional Engineer for structural design">>) >>
     ELSE <<>>)
    \o
    (IF maxSpan > TX_STATE.peClearSpanThreshold THEN
        << Result(<<"L2-span">>, "PE Requirement - Span", 2, "fail",
            <<"Clear span exceeds", maxSpan, TX_STATE.peClearSpanThreshold>>,
            <<"span", maxSpan, TX_STATE.peClearSpanThreshold>>,
            <<"Reduce the narrowest room dimension", TX_STATE.peClearSpanThreshold>>) >>
     ELSE <<>>)
    \o
    (IF stories = 1 /\ totalArea > TX_STATE.peSingleStoryAreaThreshold THEN
        << Result(<<"L2-area">>, "PE Requirement - Area", 2, "fail",
            <<"Single-story floor area exceeds", totalArea, TX_STATE.peSingleStoryAreaThreshold>>,
            <<"area", TX_STATE.peSingleStoryAreaThreshold>>,
            <<"Reduce total floor area", TX_STATE.peSingleStoryAreaThreshold>>) >>
     ELSE <<>>)
    \o
    (IF units > TX_STATE.engineerExemptionMaxUnits THEN
        << Result(<<"L2-units">>, "PE Requirement - Units", 2, "fail",
            <<"dwelling units exceeds engineering exemption limit", units, TX_STATE.engineerExemptionMaxUnits>>,
            <<"units", TX_STATE.engineerExemptionMaxUnits>>,
            <<"Engage a licensed Professional Engineer">>) >>
     ELSE <<>>)

\* a variant that reports only the first failing condition, as L1 does
checkL2_FirstIssueOnly(res, p, jurisdiction, buildingType) ==
    LET stories   == OrDefault(p.stories, 1)
        totalArea == calcTotalArea(p)
        maxSpan   == calcMaxSpan(p)
        issues    == L2Issues(p, buildingType)
    IN
    IF Len(issues) > 0 THEN Append(res, issues[1])
    ELSE IF 100 * maxSpan > TX_STATE.peClearSpanThreshold * 85 THEN
        Append(res, Result(<<"L2-span-warn">>, "PE Requirement - Span", 2, "warn",
            <<"Max span is approaching the PE threshold", maxSpan, TX_STATE.peClearSpanThreshold>>,
            <<"percent of the limit", Percent(maxSpan, TX_STATE.peClearSpanThreshold)>>,
            <<"Consider adding interior support">>))
    ELSE
        Append(res, Result(<<"L2">>, "PE Requirement", 2, "pass",
            <<"Design within engineering exemption limits", totalArea, maxSpan, stories>>,
            <<>>, <<>>))

checkL2_PERequirement(res, p, jurisdiction, buildingType) ==
    LET stories   == OrDefault(p.stories, 1)
        totalArea == calcTotalArea(p)
        maxSpan   == calcMaxSpan(p)
        issues    == L2Issues(p, buildingType)
    IN
    IF Len(issues) > 0 THEN res \o issues
    \* maxSpan > peClearSpanThreshold * 0.85
    ELSE IF 100 * maxSpan > TX_STATE.peClearSpanThreshold * 85 THEN
        Append(res, Result(<<"L2-span-warn">>, "PE Requirement - Span", 2, "warn",
            <<"Max span is approaching the PE threshold", maxSpan, TX_STATE.peClearSpanThreshold>>,
            <<"percent of the limit", Percent(maxSpan, TX_STATE.peClearSpanThreshold)>>,
            <<"Consider adding interior support">>))
    ELSE
        Append(res, Result(<<"L2">>, "PE Requirement", 2, "pass",
            <<"Design within engineering exemption limits", totalArea, maxSpan, stories>>,
            <<>>, <<>>))

-----------------------------------------------------------------------------
(* L3: Foundation Engineering                                              *)

checkL3_FoundationEngineering(res, p, jurisdiction) ==
    IF jurisdiction.requiresPESealedFoundation THEN
        Append(res, Result(<<"L3">>, "Foundation Engineering", 3, "warn",
            <<"requires PE-sealed foundation plans", jurisdiction.name>>,
            <<jurisdiction.foundationNotes>>,
            <<"Budget for a foundation engineer (PE)">>))
    ELSE
        Append(res, Result(<<"L3">>, "Foundation Engineering", 3, "pass",
            <<"No PE foundation requirement for this jurisdiction/building type">>,
            <<IF jurisdiction.foundationNotes # "" THEN jurisdiction.foundationNotes
              ELSE "State exemption thresholds apply">>,
            <<>>))


-----------------------------------------------------------------------------
(* L4: IRC Compliance.  One record per violation, in the order of the code: *)
(* per room (area, dimension, egress), then the missing bedroom and        *)
(* bathroom, then the hallway widths.                                      *)

\* a variant that tests the narrow dimension only when the area is large enough
L4RoomIssues_DimAfterArea(room) ==
    IF room.type \notin DOMAIN ROOM_TYPES THEN <<>>
    ELSE
    LET roomType == ROOM_TYPES[room.type]
        area     == room.width * room.height
        minDim   == Min(room.width, room.height)
    IN
    (IF roomType.minArea > 0 /\ area < roomType.minArea THEN
        << Result(<<"L4-area", room.id>>, "IRC - Room Area", 4, "fail",
            <<"area below minimum", roomType.label, LabelOrId(room), area, roomType.minArea>>,
            <<"IRC R304.1", roomType.minArea, area, room.width, room.height>>,
            <<"Increase room", roomType.minArea>>) >>
     ELSE IF roomType.minDimension > 0 /\ minDim < roomType.minDimension THEN
        << Result(<<"L4-dim", room.id>>, "IRC - Room Dimension", 4, "fail",
            <<"narrow dimension below minimum", roomType.label, LabelOrId(room), minDim, roomType.minDimension>>,
            <<"IRC R304.2", roomType.minDimension, minDim>>,
            <<"Widen room", roomType.minDimension>>) >>
     ELSE <<>>)
    \o
    (IF roomType.requiresEgress /\ room.type = "bedroom" /\ ~room.hasEgressWindow THEN
        << Result(<<"L4-egress", room.id>>, "IRC - Egress Window", 4, "warn",
            <<"needs an egress window", LabelOrId(room)>>,
            <<"IRC R310.1 requires emergency escape openings in sleeping rooms">>,
            <<"Add an egress-compliant window to this bedroom">>) >>
     ELSE <<>>)

L4RoomIssues(room) ==
    IF room.type \notin DOMAIN ROOM_TYPES THEN <<>>
    ELSE
    LET roomType == ROOM_TYPES[room.type]
        area     == room.width * room.height
        minDim   == Min(room.width, room.height)
    IN
    (IF roomType.minArea > 0 /\ area < roomType.minArea THEN
        << Result(<<"L4-area", room.id>>, "IRC - Room Area", 4, "fail",
            <<"area below minimum", roomType.label, LabelOrId(room), area, roomType.minArea>>,
            <<"IRC R304.1", roomType.minArea, area, room.width, room.height>>,
            <<"Increase room", roomType.minArea>>) >>
     ELSE <<>>)
    \o
    (IF roomType.minDimension > 0 /\ minDim < roomType.minDimension THEN
        << Result(<<"L4-dim", room.id>>, "IRC - Room Dimension", 4, "fail",
            <<"narrow dimension below minimum", roomType.label, LabelOrId(room), minDim, roomType.minDimension>>,
            <<"IRC R304.2", roomType.minDimension, minDim>>,
            <<"Widen room", roomType.minDimension>>) >>
     ELSE <<>>)
    \o
    (IF roomType.requiresEgress /\ room.type = "bedroom" /\ ~room.hasEgressWindow THEN
        << Result(<<"L4-egress", room.id>>, "IRC - Egress Window", 4, "warn",
            <<"needs an egress window", LabelOrId(room)>>,
            <<"IRC R310.1 requires emergency escape openings in sleeping rooms">>,
            <<"Add an egress-compliant window to this bedroom">>) >>
     ELSE <<>>)

RECURSIVE L4PerRoom(_, _)
L4PerRoom(rooms, i) ==
    IF i > Len(rooms) THEN <<>>
    ELSE L4RoomIssues(rooms[i]) \o L4PerRoom(rooms, i + 1)

CountType(rooms, type) == Cardinality({ i \in 1..Len(rooms) : rooms[i].type = type })

\* a variant that misses the bedroom in a plan without rooms too
L4NoBedroom_AlsoWithoutRooms(p) ==
    IF CountType(p.rooms, "bedroom") = 0 /\ p.buildingType # "garage" THEN
        << Result(<<"L4-no-bedroom">>, "IRC - Habitable Space", 4, "warn",
            <<"No bedrooms in plan">>,
            <<"IRC R304 requires habitable space including sleeping rooms in dwellings">>,
            <<"Add at least one bedroom to the floor plan">>) >>
    ELSE <<>>

L4NoBedroom(p) ==
    IF Len(p.rooms) > 0 /\ CountType(p.rooms, "bedroom") = 0 /\ p.buildingType # "garage" THEN
        << Result(<<"L4-no-bedroom">>, "IRC - Habitable Space", 4, "warn",
            <<"No bedrooms in plan">>,
            <<"IRC R304 requires habitable space including sleeping rooms in dwellings">>,
            <<"Add at least one bedroom to the floor plan">>) >>
    ELSE <<>>

\* a variant that counts the bedrooms where it should count the bathrooms
L4NoBathroom_CountsBedrooms(p) ==
    IF Len(p.rooms) > 0 /\ CountType(p.rooms, "bedroom") = 0 /\ p.buildingType # "garage" THEN
        << Result(<<"L4-no-bathroom">>, "IRC - Sanitary Facilities", 4, "warn",
            <<"No bathroom in plan">>,
            <<"IRC P2701">>,
            <<"Add at least one bathroom to the floor plan">>) >>
    ELSE <<>>

L4NoBathroom(p) ==
    IF Len(p.rooms) > 0 /\ CountType(p.rooms, "bathroom") = 0 /\ p.buildingType # "garage" THEN
        << Result(<<"L4-no-bathroom">>, "IRC - Sanitary Facilities", 4, "warn",
            <<"No bathroom in plan">>,
            <<"IRC P2701">>,
            <<"Add at least one bathroom to the floor plan">>) >>
    ELSE <<>>

L4HallIssue(hall) ==
    LET minDim == Min(hall.width, hall.height)
    IN  IF minDim < TX_STATE.minHallwayWidth THEN
            << Result(<<"L4-hall", hall.id>>, "IRC - Hallway Width", 4, "fail",
                <<"hallway too narrow", LabelOrId(hall), minDim, TX_STATE.minHallwayWidth>>,
                <<"IRC R311.6", TX_STATE.minHallwayWidth>>,
                <<"Widen hallway", TX_STATE.minHallwayWidth>>) >>
        ELSE <<>>

RECURSIVE L4Hallways(_, _)
L4Hallways(rooms, i) ==
    IF i > Len(rooms) THEN <<>>
    ELSE (IF rooms[i].type = "hallway" THEN L4HallIssue(rooms[i]) ELSE <<>>)
         \o L4Hallways(rooms, i + 1)

L4Issues(p) ==
    L4PerRoom(p.rooms, 1) \o L4NoBedroom(p) \o L4NoBathroom(p) \o L4Hallways(p.rooms, 1)

checkL4_IRCCompliance(res, p, jurisdiction) ==
    LET issues == L4Issues(p)
    IN  IF Len(issues) > 0 THEN res \o issues
        ELSE IF Len(p.rooms) > 0 THEN
            Append(res, Result(<<"L4">>, "IRC Compliance", 4, "pass",
                <<"All rooms meet IRC minimum requirements">>, <<>>, <<>>))
        ELSE
            Append(res, Result(<<"L4">>, "IRC Compliance", 4, "warn",
                <<"No rooms defined yet">>, <<>>,
                <<"Use the room tools to add rooms to your floor plan">>))

-----------------------------------------------------------------------------
(* L5: Energy Code                                                         *)

checkL5_EnergyCode(res, p, jurisdiction) ==
    LET windowArea == calcWindowArea(p)
        wallArea   == calcExteriorWallArea(p)
    IN
    IF wallArea > 0 /\ windowArea > 0 THEN
        \* wwr = windowArea / wallArea > 0.30
        IF 100 * windowArea > 30 * wallArea THEN
            Append(res, Result(<<"L5-wwr">>, "Energy Code - Window Ratio", 5, "warn",
                <<"Window-to-wall ratio may exceed limits", Percent(windowArea, wallArea), jurisdiction.energyCode>>,
                <<"IECC prescriptive path typically limits glazing to 15-30% of wall area">>,
                <<"Reduce window area or use REScheck">>))
        ELSE
            Append(res, Result(<<"L5">>, "Energy Code", 5, "pass",
                <<"Window-to-wall ratio within prescriptive limits", Percent(windowArea, wallArea), jurisdiction.energyCode>>,
                <<>>, <<>>))
    ELSE
        Append(res, Result(<<"L5">>, "Energy Code", 5, "pass",
            <<"applies", jurisdiction.energyCode>>,
            <<"Texas Climate Zone 2-3">>, <<>>))

-----------------------------------------------------------------------------
(* L6: Local Amendments.  Each applicable check appends independently.     *)

L6Coverage(p, jurisdiction) ==
    LET totalArea == calcTotalArea(p)
        lotArea   == OrDefault(p.lotWidth, 50) * OrDefault(p.lotDepth, 100)
    IN
    IF jurisdiction.maxLotCoverage # 0 /\ jurisdiction.maxLotCoverage < 100 THEN
        \* coverage = totalArea / lotArea > jurisdiction.maxLotCoverage
        IF 100 * totalArea > jurisdiction.maxLotCoverage * lotArea THEN
            << Result(<<"L6-coverage">>, "Local - Lot Coverage", 6, "fail",
                <<"Building coverage exceeds maximum", Percent(totalArea, lotArea), jurisdiction.name, jurisdiction.maxLotCoverage>>,
                <<"footprint", totalArea, lotArea>>,
                <<"Reduce building footprint", jurisdiction.maxLotCoverage * lotArea>>) >>
        ELSE
            << Result(<<"L6-coverage">>, "Local - Lot Coverage", 6, "pass",
                <<"Lot coverage within limit", Percent(totalArea, lotArea), jurisdiction.name, jurisdiction.maxLotCoverage>>,
                <<>>, <<>>) >>
    ELSE <<>>

L6Height(p, jurisdiction) ==
    LET estHeight == OrDefault(p.stories, 1) * 10 + 3
    IN
    IF jurisdiction.maxHeight # 0 /\ estHeight > jurisdiction.maxHeight THEN
        << Result(<<"L6-height">>, "Local - Height", 6, "fail",
            <<"Estimated height exceeds limit", estHeight, jurisdiction.name, jurisdiction.maxHeight>>,
            <<"stories", p.stories, estHeight>>,
            <<"Reduce stories or floor-to-floor height">>) >>
    ELSE <<>>

L6LotSize(p, jurisdiction) ==
    LET lotArea == OrDefault(p.lotWidth, 50) * OrDefault(p.lotDepth, 100)
    IN
    IF jurisdiction.minLotSize # 0 /\ lotArea < jurisdiction.minLotSize THEN
        << Result(<<"L6-lotsize">>, "Local - Lot Size", 6, "fail",
            <<"Lot area below minimum", lotArea, jurisdiction.name, jurisdiction.minLotSize>>,
            <<"SB 15", jurisdiction.minLotSize, TX_STATE.sb15PopulationThreshold>>,
            <<"Lot must be at least", jurisdiction.minLotSize>>) >>
    ELSE <<>>

L6Flood(jurisdiction) ==
    IF jurisdiction.floodZone THEN
        << Result(<<"L6-flood">>, "Local - Flood Zone", 6, "warn",
            <<"flood zone requirements", jurisdiction.name>>,
            <<jurisdiction.floodRequirements>>,
            <<"Check FEMA flood map for your lot">>) >>
    ELSE <<>>

L6Info(jurisdiction) ==
    IF jurisdiction.localAmendments > 0 THEN
        << Result(<<"L6-info">>, "Local Amendments", 6, "pass",
            <<"local amendments noted", jurisdiction.name>>,
            <<"amendments", jurisdiction.localAmendments>>,
            <<>>) >>
    ELSE <<>>

checkL6_LocalAmendments(res, p, jurisdiction) ==
    res \o L6Coverage(p, jurisdiction) \o L6Height(p, jurisdiction)
        \o L6LotSize(p, jurisdiction) \o L6Flood(jurisdiction) \o L6Info(jurisdiction)


-----------------------------------------------------------------------------
(* L7: Survey & Setback                                                    *)

L7Survey(p, jurisdiction) ==
    IF jurisdiction.requiresSurvey /\ ~p.surveyUploaded THEN
        << Result(<<"L7-survey">>, "Survey Required", 7, "warn",
            <<"requires a registered survey or site plan for permit", jurisdiction.name>>,
            <<"Survey must show property boundaries, easements, and existing structures">>,
            <<"Upload a survey or mark the survey as provided in project settings">>) >>
    ELSE <<>>

\* a variant in which a bounding box that touches a buildable edge violates it
SetbackViolations_Touching(p, jurisdiction) ==
    LET setbacks       == jurisdiction.setbacks
        lotW           == OrDefault(p.lotWidth, 50)
        lotD           == OrDefault(p.lotDepth, 100)
        b              == BoundingBox(p.rooms)
        buildableLeft  == setbacks.sideInterior
        buildableRight == lotW - setbacks.sideInterior
        buildableFront == setbacks.front
        buildableRear  == lotD - setbacks.rear
    IN
    (IF b.minX <= buildableLeft THEN << <<"Left side", b.minX, buildableLeft>> >> ELSE <<>>)
    \o
    (IF b.maxX >= buildableRight
     THEN << <<"Right side", b.maxX, buildableRight, setbacks.sideInterior, lotW>> >> ELSE <<>>)
    \o
    (IF b.minY <= buildableFront THEN << <<"Front", b.minY, buildableFront>> >> ELSE <<>>)
    \o
    (IF b.maxY >= buildableRear
     THEN << <<"Rear", b.maxY, buildableRear, setbacks.rear, lotD>> >> ELSE <<>>)

\* the violations array: one entry per violated edge, in the order left, right, front, rear
SetbackViolations(p, jurisdiction) ==
    LET setbacks       == jurisdiction.setbacks
        lotW           == OrDefault(p.lotWidth, 50)
        lotD           == OrDefault(p.lotDepth, 100)
        b              == BoundingBox(p.rooms)
        buildableLeft  == setbacks.sideInterior
        buildableRight == lotW - setbacks.sideInterior
        buildableFront == setbacks.front
        buildableRear  == lotD - setbacks.rear
    IN
    (IF b.minX < buildableLeft THEN << <<"Left side", b.minX, buildableLeft>> >> ELSE <<>>)
    \o
    (IF b.maxX > buildableRight
     THEN << <<"Right side", b.maxX, buildableRight, setbacks.sideInterior, lotW>> >> ELSE <<>>)
    \o
    (IF b.minY < buildableFront THEN << <<"Front", b.minY, buildableFront>> >> ELSE <<>>)
    \o
    (IF b.maxY > buildableRear
     THEN << <<"Rear", b.maxY, buildableRear, setbacks.rear, lotD>> >> ELSE <<>>)

\* a variant without the minX !== Infinity guard: with only exterior rooms the box
\* stays (Infinity, -Infinity), no comparison holds and the pass record is pushed
L7Setback_NoEmptyBoxGuard(p, jurisdiction) ==
    IF Len(p.rooms) > 0 THEN
        LET violations == IF Interior(p.rooms) # {} THEN SetbackViolations(p, jurisdiction)
                          ELSE <<>>
        IN  IF Len(violations) > 0 THEN
                << Result(<<"L7-setback">>, "Setback Violation", 7, "fail",
                    <<"Building violates setback requirements", jurisdiction.name>>,
                    <<"violations", violations>>,
                    <<"Move or resize building to fit within the buildable area">>) >>
            ELSE
                << Result(<<"L7-setback">>, "Setbacks", 7, "pass",
                    <<"Building within all setback lines">>,
                    <<"setbacks", jurisdiction.setbacks.front, jurisdiction.setbacks.rear,
                      jurisdiction.setbacks.sideInterior>>,
                    <<>>) >>
    ELSE <<>>

L7Setback(p, jurisdiction) ==
    IF Len(p.rooms) > 0 /\ Interior(p.rooms) # {} THEN
        LET violations == SetbackViolations(p, jurisdiction)
        IN  IF Len(violations) > 0 THEN
                << Result(<<"L7-setback">>, "Setback Violation", 7, "fail",
                    <<"Building violates setback requirements", jurisdiction.name>>,
                    <<"violations", violations>>,
                    <<"Move or resize building to fit within the buildable area">>) >>
            ELSE
                << Result(<<"L7-setback">>, "Setbacks", 7, "pass",
                    <<"Building within all setback lines">>,
                    <<"setbacks", jurisdiction.setbacks.front, jurisdiction.setbacks.rear,
                      jurisdiction.setbacks.sideInterior>>,
                    <<>>) >>
    ELSE <<>>

checkL7_SurveySetback(res, p, jurisdiction) ==
    res \o L7Survey(p, jurisdiction) \o L7Setback(p, jurisdiction)

-----------------------------------------------------------------------------
(* ConstraintEngine.check: this.results is emptied, the seven layers push  *)
(* on it in order, and it is returned.                                     *)

\* a variant that runs the IRC layer before the foundation layer
RunLayers_L4BeforeL3(r0, p) ==
    LET jurisdiction == LookupJurisdiction(p.jurisdiction)
        buildingType == LookupBuildingType(p.buildingType)
        r1 == checkL1_ArchitectExemption(r0, p, jurisdiction, buildingType)
        r2 == checkL2_PERequirement(r1, p, jurisdiction, buildingType)
        r3 == checkL4_IRCCompliance(r2, p, jurisdiction)
        r4 == checkL3_FoundationEngineering(r3, p, jurisdiction)
        r5 == checkL5_EnergyCode(r4, p, jurisdiction)
        r6 == checkL6_LocalAmendments(r5, p, jurisdiction)
    IN  checkL7_SurveySetback(r6, p, jurisdiction)

RunLayers(r0, p) ==
    LET jurisdiction == LookupJurisdiction(p.jurisdiction)
        buildingType == LookupBuildingType(p.buildingType)
        r1 == checkL1_ArchitectExemption(r0, p, jurisdiction, buildingType)
        r2 == checkL2_PERequirement(r1, p, jurisdiction, buildingType)
        r3 == checkL3_FoundationEngineering(r2, p, jurisdiction)
        r4 == checkL4_IRCCompliance(r3, p, jurisdiction)
        r5 == checkL5_EnergyCode(r4, p, jurisdiction)
        r6 == checkL6_LocalAmendments(r5, p, jurisdiction)
    IN  checkL7_SurveySetback(r6, p, jurisdiction)

\* a variant that does not empty this.results before the layers push on it
check_KeepsResults(p) == RunLayers(results, p)

check(p) == RunLayers(<<>>, p)

\* a variant that looks for a warn before it looks for a fail
worstStatus_WarnFirst(rs) ==
    IF \E i \in 1..Len(rs) : rs[i].status = "warn" THEN "warn"
    ELSE IF \E i \in 1..Len(rs) : rs[i].status = "fail" THEN "fail"
    ELSE "pass"

\* ConstraintEngine.worstStatus
worstStatus(rs) ==
    IF \E i \in 1..Len(rs) : rs[i].status = "fail" THEN "fail"
    ELSE IF \E i \in 1..Len(rs) : rs[i].status = "warn" THEN "warn"
    ELSE "pass"


-----------------------------------------------------------------------------
(* The application controller (unnamed/part_003) and the canvas operations *)
(* that change the project.  Every handler is one atomic step: the page's  *)
(* JavaScript runs handlers one at a time.                                 *)

\* the caller's view of r = engine.check(p): this.results is replaced by a new
\* array, which is returned
CallCheck(p, r) ==
    /\ results'  = r
    /\ lastCall' = [called |-> TRUE, project |-> p, results |-> r]
    /\ prevCall' = lastCall

\* renderConstraints(results): the list and the overall badge
renderConstraints(rs) ==
    /\ rendered' = rs
    /\ overall'  = worstStatus(rs)

\* const results = engine.check(project); renderConstraints(results);
ShowChecked(p, r) ==
    /\ CallCheck(p, r)
    /\ renderConstraints(r)

\* runConstraints(): check the project as it is after the handler's change
runConstraints(p) == ShowChecked(p, check(p))

SelJurisdictionChange(j) ==
    /\ project' = [project EXCEPT !.jurisdiction = j]
    /\ runConstraints(project')
    /\ lastEvent' = PanelEvent
    /\ UNCHANGED <<selectedRoom, canvas>>

SelBuildingTypeChange(b) ==
    /\ project' = [project EXCEPT !.buildingType = b]
    /\ runConstraints(project')
    /\ lastEvent' = PanelEvent
    /\ UNCHANGED <<selectedRoom, canvas>>

\* project.stories = parseInt(value) || 1; v is the parsed value, 0 also for NaN
InpStoriesChange(v) ==
    /\ project' = [project EXCEPT !.stories = OrDefault(v, 1)]
    /\ runConstraints(project')
    /\ lastEvent' = PanelEvent
    /\ UNCHANGED <<selectedRoom, canvas>>

\* project.lotWidth = Math.max(10, parseInt(value) || 50)
InpLotWidthChange(v) ==
    /\ project' = [project EXCEPT !.lotWidth = Max(10, OrDefault(v, 50))]
    /\ runConstraints(project')
    /\ lastEvent' = PanelEvent
    /\ UNCHANGED <<selectedRoom, canvas>>

\* project.lotDepth = Math.max(10, parseInt(value) || 100)
InpLotDepthChange(v) ==
    /\ project' = [project EXCEPT !.lotDepth = Max(10, OrDefault(v, 100))]
    /\ runConstraints(project')
    /\ lastEvent' = PanelEvent
    /\ UNCHANGED <<selectedRoom, canvas>>

ChkSurveyChange(b) ==
    /\ project' = [project EXCEPT !.surveyUploaded = b]
    /\ runConstraints(project')
    /\ lastEvent' = PanelEvent
    /\ UNCHANGED <<selectedRoom, canvas>>

\* the room panel: handlers act on canvas.selectedRoom and do nothing without one
SelRoomTypeChange(t) ==
    /\ selectedRoom # 0
    /\ project' = [project EXCEPT !.rooms[selectedRoom].type = t]
    /\ runConstraints(project')
    /\ lastEvent' = PanelEvent
    /\ UNCHANGED <<selectedRoom, canvas>>

\* canvas.selectedRoom[prop] = parseFloat(value) || 0
InpRoomPropChange(prop, v) ==
    /\ selectedRoom # 0
    /\ project' = [project EXCEPT !.rooms[selectedRoom][prop] = v]
    /\ runConstraints(project')
    /\ lastEvent' = PanelEvent
    /\ UNCHANGED <<selectedRoom, canvas>>

ChkEgressChange(b) ==
    /\ selectedRoom # 0
    /\ project' = [project EXCEPT !.rooms[selectedRoom].hasEgressWindow = b]
    /\ runConstraints(project')
    /\ lastEvent' = PanelEvent
    /\ UNCHANGED <<selectedRoom, canvas>>

\* rooms.splice(idx, 1)
RemoveAt(rooms, idx) ==
    [ i \in 1..(Len(rooms) - 1) |-> IF i < idx THEN rooms[i] ELSE rooms[i + 1] ]

\* a variant that removes the room and keeps the selection
deleteSelected_KeepsSelection ==
    /\ selectedRoom # 0
    /\ project' = [project EXCEPT !.rooms = RemoveAt(project.rooms, selectedRoom)]
    /\ runConstraints(project')
    /\ lastEvent' = PanelEvent
    /\ UNCHANGED <<selectedRoom, canvas>>

\* canvas.deleteSelected(): onChange runs the constraints
deleteSelected ==
    /\ selectedRoom # 0
    /\ project' = [project EXCEPT !.rooms = RemoveAt(project.rooms, selectedRoom)]
    /\ selectedRoom' = 0
    /\ runConstraints(project')
    /\ lastEvent' = PanelEvent
    /\ UNCHANGED canvas

\* openExportModal(): a second check of the project as it stands; nothing is rendered
openExportModal ==
    /\ CallCheck(project, check(project))
    /\ lastEvent' = PanelEvent
    /\ UNCHANGED <<project, selectedRoom, rendered, overall, canvas>>

-----------------------------------------------------------------------------
(* FloorPlanCanvas.  Screen coordinates are whole pixels; a JS number that  *)
(* need not be whole (scale, offsets, world coordinates) is the fraction   *)
(* <<n, d>> in lowest terms with d > 0, and the arithmetic on it is exact. *)

Null == [null |-> TRUE]

RECURSIVE GCD(_, _)
GCD(a, b) == IF b = 0 THEN a ELSE GCD(b, a % b)

Abs(x) == IF x < 0 THEN -x ELSE x

Frac(n, d) ==
    LET g == GCD(Abs(n), Abs(d))
    IN  IF d < 0 THEN <<(-n) \div g, (-d) \div g>> ELSE <<n \div g, d \div g>>

Num(i) == <<i, 1>>

\* sums and products cancel common factors before they multiply
NumAdd(a, b) ==
    LET g == GCD(a[2], b[2])
    IN  Frac(a[1] * (b[2] \div g) + b[1] * (a[2] \div g), (a[2] \div g) * b[2])
NumSub(a, b) == NumAdd(a, <<-b[1], b[2]>>)
NumMul(a, b) ==
    LET g1 == GCD(Abs(a[1]), b[2])
        g2 == GCD(Abs(b[1]), a[2])
    IN  Frac((a[1] \div g1) * (b[1] \div g2), (a[2] \div g2) * (b[2] \div g1))
NumDiv(a, b) == NumMul(a, IF b[1] < 0 THEN <<-b[2], -b[1]>> ELSE <<b[2], b[1]>>)
NumLess(a, b) ==
    LET g == GCD(a[2], b[2])
    IN  a[1] * (b[2] \div g) < b[1] * (a[2] \div g)
NumLeq(a, b)  == ~NumLess(b, a)
NumMin(a, b)  == IF NumLess(b, a) THEN b ELSE a
NumMax(a, b)  == IF NumLess(a, b) THEN b ELSE a
NumAbs(a)     == <<Abs(a[1]), a[2]>>

\* Math.round: the nearest whole number, a half goes up
MathRound(a) == (2 * a[1] + a[2]) \div (2 * a[2])

\* the state the constructor leaves
FloorPlanCanvas ==
    [ scale |-> Num(6), offsetX |-> Num(60), offsetY |-> Num(60), gridSize |-> 1,
      mode |-> "select", drawRoomType |-> "living",
      drawing |-> FALSE, drawStart |-> Null, drawEnd |-> Null,
      hoveredRoom |-> 0,        \* the id of the hovered room, 0 for null
      dragOffset |-> Null,
      resizing |-> FALSE, resizeHandle |-> "",
      panning |-> FALSE, panStart |-> Null ]

worldToScreen(c, wx, wy) ==
    [ x |-> NumAdd(NumMul(wx, c.scale), c.offsetX),
      y |-> NumAdd(NumMul(wy, c.scale), c.offsetY) ]

screenToWorld(c, sx, sy) ==
    [ x |-> NumDiv(NumSub(sx, c.offsetX), c.scale),
      y |-> NumDiv(NumSub(sy, c.offsetY), c.scale) ]

\* a variant that adds half a cell after it has rounded to the cell
snapToGrid_HalfCellAdded(c, val) ==
    MathRound(NumAdd(Num(MathRound(NumDiv(val, Num(c.gridSize)))), <<1, 2>>)) * c.gridSize

snapToGrid(c, val) == MathRound(NumDiv(val, Num(c.gridSize))) * c.gridSize

RECURSIVE HitFrom(_, _, _)
HitFrom(rooms, world, i) ==
    IF i = 0 THEN 0
    ELSE LET r == rooms[i]
         IN  IF /\ NumLeq(Num(r.x), world.x) /\ NumLeq(world.x, Num(r.x + r.width))
                /\ NumLeq(Num(r.y), world.y) /\ NumLeq(world.y, Num(r.y + r.height))
             THEN i
             ELSE HitFrom(rooms, world, i - 1)

\* a variant that returns the first-added room that contains the point
RECURSIVE HitUpFrom(_, _, _)
HitUpFrom(rooms, world, i) ==
    IF i > Len(rooms) THEN 0
    ELSE LET r == rooms[i]
         IN  IF /\ NumLeq(Num(r.x), world.x) /\ NumLeq(world.x, Num(r.x + r.width))
                /\ NumLeq(Num(r.y), world.y) /\ NumLeq(world.y, Num(r.y + r.height))
             THEN i
             ELSE HitUpFrom(rooms, world, i + 1)

hitTestRoom_FirstAdded(rooms, world) == HitUpFrom(rooms, world, 1)

\* the index of the last room of the list that contains the point, 0 for null
hitTestRoom(rooms, world) == HitFrom(rooms, world, Len(rooms))

\* the eight handles in the order of the object literal
Handles(c, room) ==
    LET s  == worldToScreen(c, Num(room.x), Num(room.y))
        e  == worldToScreen(c, Num(room.x + room.width), Num(room.y + room.height))
        mx == NumDiv(NumAdd(s.x, e.x), Num(2))
        my == NumDiv(NumAdd(s.y, e.y), Num(2))
    IN  << [key |-> "nw", x |-> s.x, y |-> s.y], [key |-> "ne", x |-> e.x, y |-> s.y],
           [key |-> "sw", x |-> s.x, y |-> e.y], [key |-> "se", x |-> e.x, y |-> e.y],
           [key |-> "n",  x |-> mx,  y |-> s.y], [key |-> "s",  x |-> mx,  y |-> e.y],
           [key |-> "e",  x |-> e.x, y |-> my],  [key |-> "w",  x |-> s.x, y |-> my] >>

\* the key of the first handle within hs = 8 pixels of the position, "" for null
getResizeHandle(c, screenPos, room) ==
    LET hs   == Num(8)
        hl   == Handles(c, room)
        near == { k \in 1..Len(hl) :
                    /\ NumLess(NumAbs(NumSub(Num(screenPos.x), hl[k].x)), hs)
                    /\ NumLess(NumAbs(NumSub(Num(screenPos.y), hl[k].y)), hs) }
    IN  IF near = {} THEN ""
        ELSE hl[CHOOSE k \in near : \A j \in near : k <= j].key

\* a variant with no least size
applyResize_NoMinimum(room, handle, snapped) ==
    LET east    == [room EXCEPT !.width  = snapped.x - room.x]
        south   == [room EXCEPT !.height = snapped.y - room.y]
        westOf(r)  == [r EXCEPT !.x = snapped.x, !.width = room.x + room.width - snapped.x]
        northOf(r) == [r EXCEPT !.y = snapped.y, !.height = room.y + room.height - snapped.y]
    IN  CASE handle = "se" -> [east EXCEPT !.height = south.height]
          [] handle = "nw" -> northOf(westOf(room))
          [] handle = "ne" -> northOf(east)
          [] handle = "sw" -> westOf(south)
          [] handle = "n"  -> northOf(room)
          [] handle = "s"  -> south
          [] handle = "e"  -> east
          [] handle = "w"  -> westOf(room)
          [] OTHER         -> room

\* a variant whose west and north handles move the room instead of its edge
applyResize_EdgeMovesRoom(room, handle, snapped) ==
    LET minSize == 2
        newW    == room.x + room.width - snapped.x
        newH    == room.y + room.height - snapped.y
        east    == [room EXCEPT !.width  = Max(minSize, snapped.x - room.x)]
        south   == [room EXCEPT !.height = Max(minSize, snapped.y - room.y)]
        westOf(r)  == IF newW >= minSize THEN [r EXCEPT !.x = snapped.x] ELSE r
        northOf(r) == IF newH >= minSize THEN [r EXCEPT !.y = snapped.y] ELSE r
    IN  CASE handle = "se" -> [east EXCEPT !.height = south.height]
          [] handle = "nw" -> northOf(westOf(room))
          [] handle = "ne" -> northOf(east)
          [] handle = "sw" -> westOf(south)
          [] handle = "n"  -> northOf(room)
          [] handle = "s"  -> south
          [] handle = "e"  -> east
          [] handle = "w"  -> westOf(room)
          [] OTHER         -> room

applyResize(room, handle, snapped) ==
    LET minSize == 2
        newW    == room.x + room.width - snapped.x
        newH    == room.y + room.height - snapped.y
        east    == [room EXCEPT !.width  = Max(minSize, snapped.x - room.x)]
        south   == [room EXCEPT !.height = Max(minSize, snapped.y - room.y)]
        westOf(r)  == IF newW >= minSize THEN [r EXCEPT !.x = snapped.x, !.width = newW] ELSE r
        northOf(r) == IF newH >= minSize THEN [r EXCEPT !.y = snapped.y, !.height = newH] ELSE r
    IN  CASE handle = "se" -> [east EXCEPT !.height = south.height]
          [] handle = "nw" -> northOf(westOf(room))
          [] handle = "ne" -> northOf(east)
          [] handle = "sw" -> westOf(south)
          [] handle = "n"  -> northOf(room)
          [] handle = "s"  -> south
          [] handle = "e"  -> east
          [] handle = "w"  -> westOf(room)
          [] OTHER         -> room

\* what a canvas event finds: its input and the state before it; views counts the
\* wheel events and the pan gestures so far, downs the pointer-down events, edits
\* the ones among them with the left button in select mode;
\* afterUp says that a pointer-up has happened and no pointer-down since;
\* anchor holds the world point under the pointer and the scale at the
\* pointer-down of the pan gesture in progress, and counts the wheel events
\* since
Event(kind, pos, button) ==
    [ kind |-> kind, pos |-> pos, button |-> button,
      canvas |-> canvas, rooms |-> project.rooms, selectedRoom |-> selectedRoom,
      views |-> lastEvent.views, edits |-> lastEvent.edits,
      downs |-> lastEvent.downs, afterUp |-> lastEvent.afterUp,
      anchor |-> lastEvent.anchor ]

NoPos == [x |-> 0, y |-> 0]

\* canvas.onChange = () => { runConstraints(); updateStats(); }
onChange(p) == runConstraints(p)

NoChange == UNCHANGED <<project, results, lastCall, prevCall, rendered, overall>>

onMouseDown(pos, button) ==
    LET world == screenToWorld(canvas, Num(pos.x), Num(pos.y))
        pan   == [x |-> pos.x, y |-> pos.y, ox |-> canvas.offsetX, oy |-> canvas.offsetY]
        start == [x |-> snapToGrid(canvas, world.x), y |-> snapToGrid(canvas, world.y)]
    IN
    /\ lastEvent' = [Event("down", pos, button) EXCEPT
                        !.views = IF button = 1 \/ button = 2 \/ canvas.mode = "pan"
                                  THEN @ + 1 ELSE @,
                        !.edits = IF button = 0 /\ canvas.mode = "select"
                                  THEN @ + 1 ELSE @,
                        !.downs = @ + 1,
                        !.afterUp = FALSE,
                        !.anchor = IF button = 1 \/ button = 2 \/ canvas.mode = "pan"
                                   THEN [world |-> world, scale |-> canvas.scale, wheels |-> 0]
                                   ELSE @]
    /\ NoChange
    /\ IF button = 1 \/ button = 2 \/ canvas.mode = "pan" THEN
           /\ canvas' = [canvas EXCEPT !.panning = TRUE, !.panStart = pan]
           /\ UNCHANGED selectedRoom
       ELSE IF canvas.mode = "draw" THEN
           /\ canvas' = [canvas EXCEPT !.drawing = TRUE, !.drawStart = start, !.drawEnd = start]
           /\ UNCHANGED selectedRoom
       ELSE IF canvas.mode = "select" THEN
           LET handle == IF selectedRoom # 0
                         THEN getResizeHandle(canvas, pos, project.rooms[selectedRoom])
                         ELSE ""
               hit    == hitTestRoom(project.rooms, world)
           IN  IF handle # "" THEN
                   /\ canvas' = [canvas EXCEPT !.resizing = TRUE, !.resizeHandle = handle]
                   /\ UNCHANGED selectedRoom
               ELSE IF hit # 0 THEN
                   /\ selectedRoom' = hit
                   /\ canvas' = [canvas EXCEPT !.dragOffset =
                                    [x |-> NumSub(world.x, Num(project.rooms[hit].x)),
                                     y |-> NumSub(world.y, Num(project.rooms[hit].y))]]
               ELSE
                   /\ selectedRoom' = 0
                   /\ UNCHANGED canvas
       ELSE UNCHANGED <<canvas, selectedRoom>>

\* a variant that looks for a drag before it looks for a pan
onMouseMove_DragFirst(pos) ==
    LET world   == screenToWorld(canvas, Num(pos.x), Num(pos.y))
        snapped == [x |-> snapToGrid(canvas, world.x), y |-> snapToGrid(canvas, world.y)]
        hit     == hitTestRoom(project.rooms, world)
        hitId   == IF hit = 0 THEN 0 ELSE project.rooms[hit].id
    IN
    /\ lastEvent' = Event("move", pos, 0)
    /\ UNCHANGED selectedRoom
    /\ IF selectedRoom # 0 /\ canvas.dragOffset # Null /\ ~canvas.resizing THEN
           /\ project' = [project EXCEPT
                 !.rooms[selectedRoom].x = snapToGrid(canvas, NumSub(world.x, canvas.dragOffset.x)),
                 !.rooms[selectedRoom].y = snapToGrid(canvas, NumSub(world.y, canvas.dragOffset.y))]
           /\ onChange(project')
           /\ UNCHANGED canvas
       ELSE IF canvas.panning /\ canvas.panStart # Null THEN
           /\ canvas' = [canvas EXCEPT
                 !.offsetX = NumAdd(canvas.panStart.ox, Num(pos.x - canvas.panStart.x)),
                 !.offsetY = NumAdd(canvas.panStart.oy, Num(pos.y - canvas.panStart.y))]
           /\ NoChange
       ELSE IF canvas.drawing /\ canvas.drawStart # Null THEN
           /\ canvas' = [canvas EXCEPT !.drawEnd = snapped]
           /\ NoChange
       ELSE IF canvas.resizing /\ selectedRoom # 0 /\ canvas.resizeHandle # "" THEN
           /\ project' = [project EXCEPT !.rooms[selectedRoom] =
                             applyResize(@, canvas.resizeHandle, snapped)]
           /\ onChange(project')
           /\ UNCHANGED canvas
       ELSE IF selectedRoom # 0 /\ canvas.dragOffset # Null /\ ~canvas.resizing THEN
           /\ project' = [project EXCEPT
                 !.rooms[selectedRoom].x = snapToGrid(canvas, NumSub(world.x, canvas.dragOffset.x)),
                 !.rooms[selectedRoom].y = snapToGrid(canvas, NumSub(world.y, canvas.dragOffset.y))]
           /\ onChange(project')
           /\ UNCHANGED canvas
       ELSE
           /\ canvas' = [canvas EXCEPT !.hoveredRoom = hitId]
           /\ NoChange

\* a variant that pans from the current offset
onMouseMove_PanFromCurrent(pos) ==
    LET world   == screenToWorld(canvas, Num(pos.x), Num(pos.y))
        snapped == [x |-> snapToGrid(canvas, world.x), y |-> snapToGrid(canvas, world.y)]
        hit     == hitTestRoom(project.rooms, world)
        hitId   == IF hit = 0 THEN 0 ELSE project.rooms[hit].id
    IN
    /\ lastEvent' = Event("move", pos, 0)
    /\ UNCHANGED selectedRoom
    /\ IF canvas.panning /\ canvas.panStart # Null THEN
           /\ canvas' = [canvas EXCEPT
                 !.offsetX = NumAdd(canvas.offsetX, Num(pos.x - canvas.panStart.x)),
                 !.offsetY = NumAdd(canvas.offsetY, Num(pos.y - canvas.panStart.y))]
           /\ NoChange
       ELSE IF canvas.drawing /\ canvas.drawStart # Null THEN
           /\ canvas' = [canvas EXCEPT !.drawEnd = snapped]
           /\ NoChange
       ELSE IF canvas.resizing /\ selectedRoom # 0 /\ canvas.resizeHandle # "" THEN
           /\ project' = [project EXCEPT !.rooms[selectedRoom] =
                             applyResize(@, canvas.resizeHandle, snapped)]
           /\ onChange(project')
           /\ UNCHANGED canvas
       ELSE IF selectedRoom # 0 /\ canvas.dragOffset # Null /\ ~canvas.resizing THEN
           /\ project' = [project EXCEPT
                 !.rooms[selectedRoom].x = snapToGrid(canvas, NumSub(world.x, canvas.dragOffset.x)),
                 !.rooms[selectedRoom].y = snapToGrid(canvas, NumSub(world.y, canvas.dragOffset.y))]
           /\ onChange(project')
           /\ UNCHANGED canvas
       ELSE
           /\ canvas' = [canvas EXCEPT !.hoveredRoom = hitId]
           /\ NoChange

onMouseMove(pos) ==
    LET world   == screenToWorld(canvas, Num(pos.x), Num(pos.y))
        snapped == [x |-> snapToGrid(canvas, world.x), y |-> snapToGrid(canvas, world.y)]
        hit     == hitTestRoom(project.rooms, world)
        hitId   == IF hit = 0 THEN 0 ELSE project.rooms[hit].id
    IN
    /\ lastEvent' = Event("move", pos, 0)
    /\ UNCHANGED selectedRoom
    /\ IF canvas.panning /\ canvas.panStart # Null THEN
           /\ canvas' = [canvas EXCEPT
                 !.offsetX = NumAdd(canvas.panStart.ox, Num(pos.x - canvas.panStart.x)),
                 !.offsetY = NumAdd(canvas.panStart.oy, Num(pos.y - canvas.panStart.y))]
           /\ NoChange
       ELSE IF canvas.drawing /\ canvas.drawStart # Null THEN
           /\ canvas' = [canvas EXCEPT !.drawEnd = snapped]
           /\ NoChange
       ELSE IF canvas.resizing /\ selectedRoom # 0 /\ canvas.resizeHandle # "" THEN
           /\ project' = [project EXCEPT !.rooms[selectedRoom] =
                             applyResize(@, canvas.resizeHandle, snapped)]
           /\ onChange(project')
           /\ UNCHANGED canvas
       ELSE IF selectedRoom # 0 /\ canvas.dragOffset # Null /\ ~canvas.resizing THEN
           /\ project' = [project EXCEPT
                 !.rooms[selectedRoom].x = snapToGrid(canvas, NumSub(world.x, canvas.dragOffset.x)),
                 !.rooms[selectedRoom].y = snapToGrid(canvas, NumSub(world.y, canvas.dragOffset.y))]
           /\ onChange(project')
           /\ UNCHANGED canvas
       ELSE
           /\ canvas' = [canvas EXCEPT !.hoveredRoom = hitId]
           /\ NoChange

\* the most rooms a plan of the model holds
MaxRooms == 2

\* a room object
Room(id, type, x, y, w, h, egress, win) ==
    [ id |-> id, type |-> type, label |-> "", x |-> x, y |-> y,
      width |-> w, height |-> h, hasEgressWindow |-> egress, windowArea |-> win ]

\* the readings of Date.now() that the model distinguishes
MaxClock == 2

\* Date.now(): milliseconds of the wall clock, which two commits can share
Clock == 1..MaxClock

\* a variant that clears the draw gesture only
Released_DrawOnly(c) ==
    [c EXCEPT !.drawing = FALSE, !.drawStart = Null, !.drawEnd = Null]

\* the interaction state that onMouseUp leaves
Released(c) ==
    [c EXCEPT !.drawing = FALSE, !.drawStart = Null, !.drawEnd = Null,
              !.panning = FALSE, !.panStart = Null,
              !.resizing = FALSE, !.resizeHandle = "", !.dragOffset = Null]

\* a variant that keeps the corner where the gesture started
NewRoom_FromStart(c, now) ==
    Room(now, c.drawRoomType, c.drawStart.x, c.drawStart.y,
         Abs(c.drawEnd.x - c.drawStart.x), Abs(c.drawEnd.y - c.drawStart.y), FALSE, 0)

\* a variant whose rooms come with 40 sqft of window
NewRoom_Glazed(c, now) ==
    Room(now, c.drawRoomType,
         Min(c.drawStart.x, c.drawEnd.x), Min(c.drawStart.y, c.drawEnd.y),
         Abs(c.drawEnd.x - c.drawStart.x), Abs(c.drawEnd.y - c.drawStart.y), FALSE, 40)

\* the room that a draw gesture from drawStart to drawEnd describes
NewRoom(c, now) ==
    Room(now, c.drawRoomType,
         Min(c.drawStart.x, c.drawEnd.x), Min(c.drawStart.y, c.drawEnd.y),
         Abs(c.drawEnd.x - c.drawStart.x), Abs(c.drawEnd.y - c.drawStart.y), FALSE, 0)

onMouseUp(now) ==
    LET ending == canvas.drawing /\ canvas.drawStart # Null /\ canvas.drawEnd # Null
        room   == NewRoom(canvas, now)
    IN
    /\ lastEvent' = [Event("up", NoPos, 0) EXCEPT !.afterUp = TRUE, !.anchor = Null]
    /\ canvas' = Released(canvas)
    /\ IF ending /\ room.width >= 2 /\ room.height >= 2 THEN
           /\ Len(project.rooms) < MaxRooms
           /\ project' = [project EXCEPT !.rooms = Append(@, room)]
           /\ selectedRoom' = Len(project.rooms) + 1
           /\ onChange(project')
       ELSE
           /\ NoChange
           /\ UNCHANGED selectedRoom

\* a variant that moves the offsets by the unclamped scale
onWheel_UnclampedAnchor(pos, deltaY) ==
    LET worldBefore == screenToWorld(canvas, Num(pos.x), Num(pos.y))
        zoomFactor  == IF deltaY < 0 THEN <<11, 10>> ELSE <<9, 10>>
        raw         == NumMul(canvas.scale, zoomFactor)
        scale       == NumMax(Num(1), NumMin(Num(40), raw))
        worldAfter  == screenToWorld([canvas EXCEPT !.scale = raw], Num(pos.x), Num(pos.y))
    IN
    /\ lastEvent' = [Event("wheel", pos, 0) EXCEPT
                        !.views = @ + 1,
                        !.anchor = IF @ = Null THEN @ ELSE [@ EXCEPT !.wheels = @ + 1]]
    /\ canvas' = [canvas EXCEPT
          !.scale   = scale,
          !.offsetX = NumAdd(@, NumMul(NumSub(worldAfter.x, worldBefore.x), raw)),
          !.offsetY = NumAdd(@, NumMul(NumSub(worldAfter.y, worldBefore.y), raw))]
    /\ NoChange
    /\ UNCHANGED selectedRoom

\* zoomFactor 1.1 for deltaY < 0 and 0.9 otherwise
onWheel(pos, deltaY) ==
    LET worldBefore == screenToWorld(canvas, Num(pos.x), Num(pos.y))
        zoomFactor  == IF deltaY < 0 THEN <<11, 10>> ELSE <<9, 10>>
        scale       == NumMax(Num(1), NumMin(Num(40), NumMul(canvas.scale, zoomFactor)))
        worldAfter  == screenToWorld([canvas EXCEPT !.scale = scale], Num(pos.x), Num(pos.y))
    IN
    /\ lastEvent' = [Event("wheel", pos, 0) EXCEPT
                        !.views = @ + 1,
                        !.anchor = IF @ = Null THEN @ ELSE [@ EXCEPT !.wheels = @ + 1]]
    /\ canvas' = [canvas EXCEPT
          !.scale   = scale,
          !.offsetX = NumAdd(@, NumMul(NumSub(worldAfter.x, worldBefore.x), scale)),
          !.offsetY = NumAdd(@, NumMul(NumSub(worldAfter.y, worldBefore.y), scale))]
    /\ NoChange
    /\ UNCHANGED selectedRoom

\* label is what prompt() returns, Null when it is cancelled
onDblClick(pos, label) ==
    LET world == screenToWorld(canvas, Num(pos.x), Num(pos.y))
        hit   == hitTestRoom(project.rooms, world)
    IN
    /\ lastEvent' = Event("dblclick", pos, 0)
    /\ UNCHANGED <<canvas, selectedRoom>>
    /\ IF hit # 0 /\ label # Null THEN
           /\ project' = [project EXCEPT !.rooms[hit].label = label.text]
           /\ onChange(project')
       ELSE NoChange

setMode(mode) ==
    /\ canvas' = [canvas EXCEPT !.mode = mode]
    /\ lastEvent' = Event("mode", NoPos, 0)
    /\ NoChange
    /\ UNCHANGED selectedRoom

\* a chip of the room palette: setDrawRoomType(key); setMode("draw")
ChipClick(key) ==
    /\ canvas' = [canvas EXCEPT !.drawRoomType = key, !.mode = "draw"]
    /\ lastEvent' = Event("mode", NoPos, 0)
    /\ NoChange
    /\ UNCHANGED selectedRoom

\* the Escape key: canvas.selectedRoom = null; setMode("select")
KeyEscape ==
    /\ selectedRoom' = 0
    /\ canvas' = [canvas EXCEPT !.mode = "select"]
    /\ lastEvent' = Event("mode", NoPos, 0)
    /\ NoChange

\* cw and ch are the CSS width and height of the canvas element
zoomToFit(cw, ch) ==
    LET lotW    == OrDefault(project.lotWidth, 50)
        lotD    == OrDefault(project.lotDepth, 100)
        padding == 80
        scale   == NumMin(Frac(cw - padding * 2, lotW), Frac(ch - padding * 2, lotD))
    IN
    /\ canvas' = [canvas EXCEPT
          !.scale   = scale,
          !.offsetX = NumDiv(NumSub(Num(cw), NumMul(Num(lotW), scale)), Num(2)),
          !.offsetY = NumDiv(NumSub(Num(ch), NumMul(Num(lotD), scale)), Num(2))]
    /\ lastEvent' = Event("fit", NoPos, 0)
    /\ NoChange
    /\ UNCHANGED selectedRoom

\* the label field of the room panel: the canvas is rendered, nothing else
InpRoomLabelInput(text) ==
    /\ selectedRoom # 0
    /\ project' = [project EXCEPT !.rooms[selectedRoom].label = text]
    /\ lastEvent' = PanelEvent
    /\ UNCHANGED <<selectedRoom, canvas, results, lastCall, prevCall, rendered, overall>>

-----------------------------------------------------------------------------
(* Bounded inputs                                                          *)

MaxStories == 4

\* the room lists of at most n rooms whose rooms are drawn from Shapes; the i-th
\* room gets the id i (ids are unique in the Scene Model)
RoomLists(Shapes, n) ==
    UNION { { [ i \in 1..k |-> [f[i] EXCEPT !.id = i] ] : f \in [1..k -> Shapes] }
            : k \in 0..n }

Project(j, b, s, lw, ld, sv, rooms) ==
    [ jurisdiction |-> j, buildingType |-> b, stories |-> s,
      lotWidth |-> lw, lotDepth |-> ld, surveyUploaded |-> sv, rooms |-> rooms ]

\* the state after the constructors, before the first runConstraints()
InitEngine ==
    /\ results  = <<>>
    /\ lastCall = NoCall
    /\ prevCall = NoCall
    /\ rendered = <<>>
    /\ overall  = "none"
    /\ canvas   = FloorPlanCanvas
    /\ lastEvent = NoEvent

\* the records of one layer in a result array
OfLayer(rs, n) == SelectSeq(rs, LAMBDA r : r.layer = n)

-----------------------------------------------------------------------------
(* SpecL1: every jurisdiction, building type and story count               *)

InitL1 ==
    /\ InitEngine
    /\ selectedRoom = 0
    /\ project \in { Project(j, b, s, 50, 100, FALSE, <<>>) :
                       j \in DOMAIN JURISDICTIONS, b \in DOMAIN BUILDING_TYPES,
                       s \in 1..MaxStories }

NextL1 ==
    \/ \E j \in DOMAIN JURISDICTIONS : SelJurisdictionChange(j)
    \/ \E b \in DOMAIN BUILDING_TYPES : SelBuildingTypeChange(b)
    \/ \E v \in 0..MaxStories : InpStoriesChange(v)
    \/ openExportModal

SpecL1 == InitL1 /\ [][NextL1]_vars

\* C4: L1 contributes exactly one record, that of the first condition that
\* matches in the order units > 4 (fail), units <= 2 and stories > 3 (fail),
\* units > 2 and stories > 2 (fail), units > 2 in the unincorporated
\* jurisdiction (warn), and otherwise pass; a 1-unit, 1-story building gets a
\* single L1 pass in every jurisdiction.
C4_L1FirstMatch ==
    lastCall.called =>
        LET p       == lastCall.project
            units   == BUILDING_TYPES[p.buildingType].maxUnits
            stories == p.stories
            l1      == OfLayer(lastCall.results, 1)
            first   == IF units > 4 THEN <<"L1-units", "fail">>
                       ELSE IF units <= 2 /\ stories > 3 THEN <<"L1-stories", "fail">>
                       ELSE IF units > 2 /\ stories > 2 THEN <<"L1-stories-multi", "fail">>
                       ELSE IF units > 2 /\ p.jurisdiction = "unincorporated"
                            THEN <<"L1-municipality", "warn">>
                       ELSE <<"L1", "pass">>
        IN  /\ Len(l1) = 1
            /\ l1[1].id = <<first[1]>>
            /\ l1[1].status = first[2]
            /\ (units = 1 /\ stories = 1 => l1[1].status = "pass")

\* a 3-story triplex in the unincorporated area matches two conditions; the
\* story limit, which comes first, is the one reported
C4_Witness ==
    /\ lastCall.called
    /\ lastCall.project.buildingType = "triplex"
    /\ lastCall.project.jurisdiction = "unincorporated"
    /\ lastCall.project.stories = 3
    /\ OfLayer(lastCall.results, 1)[1].id = <<"L1-stories-multi">>

-----------------------------------------------------------------------------
(* SpecWorst: worstStatus on arbitrary result arrays, the empty one        *)
(* included, as renderConstraints applies it                               *)

MaxResults == 4

Statuses == {"pass", "warn", "fail"}

\* the result arrays of at most n records with any statuses
ResultArrays(n) ==
    UNION { { [ i \in 1..k |-> Result(<<"R", i>>, "R", 1, f[i], <<>>, <<>>, <<>>) ]
              : f \in [1..k -> Statuses] } : k \in 0..n }

InitWorst ==
    /\ InitEngine
    /\ selectedRoom = 0
    /\ project = Project("houston", "single-family", 1, 50, 100, FALSE, <<>>)

NextWorst ==
    \E rs \in ResultArrays(MaxResults) :
        /\ renderConstraints(rs)
        /\ UNCHANGED <<project, selectedRoom, results, lastCall, prevCall, canvas, lastEvent>>

SpecWorst == InitWorst /\ [][NextWorst]_vars

HasStatus(rs, st) == \E i \in 1..Len(rs) : rs[i].status = st

\* C2: for every result set, the empty one included, worstStatus is fail iff
\* some record has status fail, otherwise warn iff some record has status
\* warn, otherwise pass.
C2_WorstStatus ==
    overall # "none" =>
        /\ overall \in Statuses
        /\ (overall = "fail" <=> HasStatus(rendered, "fail"))
        /\ (overall = "warn" <=> ~HasStatus(rendered, "fail") /\ HasStatus(rendered, "warn"))
        /\ (overall = "pass" <=> \A i \in 1..Len(rendered) : rendered[i].status = "pass")
        /\ (rendered = <<>> => overall = "pass")

\* a warn that precedes a fail in the array does not hide the fail
C2_Witness ==
    /\ Len(rendered) = 3
    /\ rendered[1].status = "warn"
    /\ rendered[2].status = "pass"
    /\ rendered[3].status = "fail"
    /\ overall = "fail"

-----------------------------------------------------------------------------
(* SpecCheck: projects that exercise every layer, changed through the      *)
(* settings handlers and checked again by the export                       *)

ShapesCheck ==
    { Room(0, "bedroom", 10, 30, 6, 8, FALSE, 0),
      Room(0, "living", 0, 0, 25, 30, FALSE, 400),
      Room(0, "hallway", 5, 25, 2, 10, FALSE, 0) }

JurisdictionsCheck == {"houston", "austin", "unincorporated"}
BuildingTypesCheck == {"single-family", "triplex", "garage"}
StoriesCheck       == {1, 4}

InitCheck ==
    /\ InitEngine
    /\ project \in { Project(j, b, s, 50, 100, FALSE, rooms) :
                       j \in JurisdictionsCheck, b \in BuildingTypesCheck,
                       s \in StoriesCheck,
                       rooms \in RoomLists(ShapesCheck, MaxRooms) }
    /\ selectedRoom \in {0, Len(project.rooms)}

NextCheck ==
    \/ \E j \in JurisdictionsCheck : SelJurisdictionChange(j)
    \/ \E b \in BuildingTypesCheck : SelBuildingTypeChange(b)
    \/ \E v \in StoriesCheck : InpStoriesChange(v)
    \/ \E v \in {20, 50} : InpLotWidthChange(v)
    \/ deleteSelected
    \/ openExportModal

SpecCheck == InitCheck /\ [][NextCheck]_vars

\* C1: two calls of check on the same unchanged project return arrays that are
\* equal element by element (same length, order and fields), whatever the
\* engine instance checked before.
C1_Determinism ==
    (lastCall.called /\ prevCall.called /\ lastCall.project = prevCall.project) =>
        /\ Len(lastCall.results) = Len(prevCall.results)
        /\ \A i \in 1..Len(lastCall.results) :
              lastCall.results[i] = prevCall.results[i]

\* the same project checked twice in a row, with rooms and more than one record a layer
C1_Witness ==
    /\ lastCall.called /\ prevCall.called
    /\ lastCall.project = prevCall.project
    /\ Len(lastCall.project.rooms) = 2
    /\ Len(lastCall.results) > 9

\* C3: the seven layers run in the order L1..L7: in every returned array the
\* layer numbers are non-decreasing, every layer is in 1..7 and every status
\* is pass, warn or fail.
C3_LayerOrder ==
    lastCall.called =>
        LET rs == lastCall.results
        IN  /\ \A i \in 1..Len(rs) : rs[i].layer \in 1..7 /\ rs[i].status \in Statuses
            /\ \A i \in 1..(Len(rs) - 1) : rs[i].layer <= rs[i + 1].layer

\* an array in which every layer has a record and L4 and L6 have several
C3_Witness ==
    /\ lastCall.called
    /\ { lastCall.results[i].layer : i \in 1..Len(lastCall.results) } = 1..7
    /\ Len(OfLayer(lastCall.results, 4)) > 2
    /\ Len(OfLayer(lastCall.results, 6)) > 2

-----------------------------------------------------------------------------
(* SpecL2: spans around the 24 ft threshold and its 85% mark, areas around *)
(* 5000 sqft, exterior rooms, one to three stories                         *)

ShapesL2 ==
    { Room(0, "living", 0, 0, 20, 30, FALSE, 0),
      Room(0, "living", 0, 0, 21, 22, FALSE, 0),
      Room(0, "living", 0, 0, 210, 24, FALSE, 0),
      Room(0, "living", 0, 0, 25, 210, FALSE, 0),
      Room(0, "bedroom", 0, 0, 20, 251, TRUE, 0),
      Room(0, "porch", 0, 0, 80, 80, FALSE, 0) }

StoriesL2       == 1..3
BuildingTypesL2 == {"single-family", "fourplex"}

InitL2 ==
    /\ InitEngine
    /\ project \in { Project("houston", b, s, 50, 100, FALSE, rooms) :
                       b \in BuildingTypesL2, s \in StoriesL2,
                       rooms \in RoomLists(ShapesL2, MaxRooms) }
    /\ selectedRoom \in {0, Len(project.rooms)}

NextL2 ==
    \/ \E b \in BuildingTypesL2 : SelBuildingTypeChange(b)
    \/ \E v \in {0} \cup StoriesL2 : InpStoriesChange(v)
    \/ \E t \in {"living", "porch"} : SelRoomTypeChange(t)
    \/ openExportModal

SpecL2 == InitL2 /\ [][NextL2]_vars

\* the ids of the records of a result array, in order
Ids(rs) == [ i \in 1..Len(rs) |-> rs[i].id[1] ]

\* how many records of a result array carry the id tag
CountId(rs, tag) == Cardinality({ i \in 1..Len(rs) : rs[i].id[1] = tag })

\* C5: L2 emits one fail record for each of its four conditions that holds
\* (stories > 2; max span of the non-exterior rooms > 24 ft; stories = 1 and
\* total non-exterior area > 5000 sqft; units > 4), each independently of the
\* others; when none holds it emits exactly one record, warn if the max span
\* exceeds 85% of 24 ft and pass otherwise; pass or warn never appears
\* together with an L2 fail.
C5_L2Independent ==
    lastCall.called =>
        LET p        == lastCall.project
            l2       == OfLayer(lastCall.results, 2)
            inside   == { i \in 1..Len(p.rooms) : p.rooms[i].type # "porch" }
            spans    == { Min(p.rooms[i].width, p.rooms[i].height) : i \in inside }
            cStories == p.stories > 2
            cSpan    == \E sp \in spans : sp > 24
            cArea    == p.stories = 1 /\ calcTotalArea(p) > 5000
            cUnits   == BUILDING_TYPES[p.buildingType].maxUnits > 4
            Holds(c) == IF c THEN 1 ELSE 0
            nearSpan == \E sp \in spans : 100 * sp > 85 * 24
        IN  /\ CountId(l2, "L2-stories") = Holds(cStories)
            /\ CountId(l2, "L2-span")    = Holds(cSpan)
            /\ CountId(l2, "L2-area")    = Holds(cArea)
            /\ CountId(l2, "L2-units")   = Holds(cUnits)
            /\ \A i \in 1..Len(l2) :
                  l2[i].id[1] \in {"L2-stories", "L2-span", "L2-area", "L2-units"}
                     <=> l2[i].status = "fail"
            /\ IF cStories \/ cSpan \/ cArea \/ cUnits
               THEN \A i \in 1..Len(l2) : l2[i].status = "fail"
               ELSE /\ Len(l2) = 1
                    /\ l2[1].status = (IF nearSpan THEN "warn" ELSE "pass")
                    /\ l2[1].id[1] = (IF nearSpan THEN "L2-span-warn" ELSE "L2")

\* a single-story plan whose span and area both exceed their thresholds, next to
\* a large porch that counts for neither: both failures are reported
C5_Witness ==
    /\ lastCall.called
    /\ lastCall.project.stories = 1
    /\ Len(lastCall.project.rooms) = 2
    /\ lastCall.project.rooms[1].type = "porch"
    /\ calcTotalArea(lastCall.project) = 5250
    /\ Ids(OfLayer(lastCall.results, 2)) = <<"L2-span", "L2-area">>

-----------------------------------------------------------------------------
(* SpecL4: rooms that violate the area rule, the dimension rule, both or   *)
(* none, narrow and wide hallways, bedrooms with and without egress, in a  *)
(* dwelling and in a detached garage                                       *)

ShapesL4 ==
    { Room(0, "bedroom", 0, 0, 6, 8, FALSE, 0),
      Room(0, "bedroom", 0, 0, 6, 12, TRUE, 0),
      Room(0, "bedroom", 0, 0, 10, 10, TRUE, 0),
      Room(0, "bathroom", 0, 0, 5, 8, FALSE, 0),
      Room(0, "hallway", 0, 0, 2, 10, FALSE, 0),
      Room(0, "hallway", 0, 0, 3, 10, FALSE, 0),
      Room(0, "closet", 0, 0, 2, 2, FALSE, 0) }

BuildingTypesL4 == {"single-family", "garage"}

InitL4 ==
    /\ InitEngine
    /\ project \in { Project("unincorporated", b, 1, 50, 100, FALSE, rooms) :
                       b \in BuildingTypesL4,
                       rooms \in RoomLists(ShapesL4, MaxRooms) }
    /\ selectedRoom \in {0, Len(project.rooms)}

NextL4 ==
    \/ \E b \in BuildingTypesL4 : SelBuildingTypeChange(b)
    \/ \E t \in {"bedroom", "hallway"} : SelRoomTypeChange(t)
    \/ \E b \in BOOLEAN : ChkEgressChange(b)
    \/ deleteSelected
    \/ openExportModal

SpecL4 == InitL4 /\ [][NextL4]_vars

\* the records of rs that carry the id of the room: `${tag}-${room.id}`
RefersTo(rs, room) ==
    { k \in 1..Len(rs) : Len(rs[k].id) = 2 /\ rs[k].id[2] = room.id }

FailsFor(rs, room) == { k \in RefersTo(rs, room) : rs[k].status = "fail" }

IsBedroom6x8(room) == room.type = "bedroom" /\ room.width = 6 /\ room.height = 8

\* C6 as stated: for a project that contains a 6 x 8 ft bedroom (48 sqft, below
\* the bedroom minimum area of 70), the results of check contain exactly one
\* record with status fail that references that room's id.
C6_OneFailForSmallBedroom ==
    lastCall.called =>
        \A i \in 1..Len(lastCall.project.rooms) :
            IsBedroom6x8(lastCall.project.rooms[i]) =>
                Cardinality(FailsFor(lastCall.results, lastCall.project.rooms[i])) = 1

\* C6 as amended: a 6 x 8 ft bedroom gets exactly one minimum-area fail and,
\* because 6 ft is below the bedroom minimum dimension of 7 ft, exactly one
\* minimum-dimension fail as well: the two fail records that reference its id.
C6_TwoFailsForSmallBedroom ==
    lastCall.called =>
        \A i \in 1..Len(lastCall.project.rooms) :
            LET room == lastCall.project.rooms[i]
                rs   == lastCall.results
            IN  IsBedroom6x8(room) =>
                  /\ Cardinality({ k \in FailsFor(rs, room) : rs[k].id[1] = "L4-area" }) = 1
                  /\ Cardinality({ k \in FailsFor(rs, room) : rs[k].id[1] = "L4-dim" }) = 1
                  /\ Cardinality(FailsFor(rs, room)) = 2
                  /\ \A k \in FailsFor(rs, room) : rs[k].layer = 4

\* the 6 x 8 ft bedroom as the only room of a single-family plan
C6_Witness ==
    /\ lastCall.called
    /\ Len(lastCall.project.rooms) = 1
    /\ IsBedroom6x8(lastCall.project.rooms[1])
    /\ Ids(OfLayer(lastCall.results, 4)) = <<"L4-area", "L4-dim", "L4-egress", "L4-no-bathroom">>

HasType(p, type) == \E i \in 1..Len(p.rooms) : p.rooms[i].type = type

\* C7 as stated: a project with at least one room and no bedroom gets a warn
\* for the missing bedroom, one with at least one room and no bathroom a warn
\* for the missing bathroom, for every building type.
C7_MissingRoomWarns ==
    lastCall.called =>
        LET p  == lastCall.project
            l4 == OfLayer(lastCall.results, 4)
        IN  /\ (Len(p.rooms) > 0 /\ ~HasType(p, "bedroom"))
                  => \E k \in 1..Len(l4) : l4[k].id[1] = "L4-no-bedroom" /\ l4[k].status = "warn"
            /\ (Len(p.rooms) > 0 /\ ~HasType(p, "bathroom"))
                  => \E k \in 1..Len(l4) : l4[k].id[1] = "L4-no-bathroom" /\ l4[k].status = "warn"

\* C7 as amended: the two warns are emitted for every building type except the
\* detached garage, for which neither is emitted; each at most once, and never
\* when the plan has such a room or no room at all.
C7_MissingRoomWarnsExceptGarage ==
    lastCall.called =>
        LET p  == lastCall.project
            l4 == OfLayer(lastCall.results, 4)
            Expect(type) == IF Len(p.rooms) > 0 /\ ~HasType(p, type) /\ p.buildingType # "garage"
                            THEN 1 ELSE 0
        IN  /\ CountId(l4, "L4-no-bedroom") = Expect("bedroom")
            /\ CountId(l4, "L4-no-bathroom") = Expect("bathroom")
            /\ \A k \in 1..Len(l4) :
                  l4[k].id[1] \in {"L4-no-bedroom", "L4-no-bathroom"} => l4[k].status = "warn"

\* a dwelling with a bathroom and no bedroom: the bedroom warn and only that one
C7_Witness ==
    /\ lastCall.called
    /\ lastCall.project.buildingType = "single-family"
    /\ Len(lastCall.project.rooms) > 0
    /\ ~HasType(lastCall.project, "bedroom")
    /\ HasType(lastCall.project, "bathroom")
    /\ CountId(OfLayer(lastCall.results, 4), "L4-no-bedroom") = 1
    /\ CountId(OfLayer(lastCall.results, 4), "L4-no-bathroom") = 0

\* the records of rs for the room under the id tag
RecordsFor(rs, room, tag) == { k \in RefersTo(rs, room) : rs[k].id[1] = tag }

ViolatesArea(room) ==
    /\ ROOM_TYPES[room.type].minArea > 0
    /\ room.width * room.height < ROOM_TYPES[room.type].minArea

ViolatesDimension(room) ==
    /\ ROOM_TYPES[room.type].minDimension > 0
    /\ Min(room.width, room.height) < ROOM_TYPES[room.type].minDimension

LacksEgress(room) == room.type = "bedroom" /\ ~room.hasEgressWindow

NarrowHallway(room) == room.type = "hallway" /\ Min(room.width, room.height) < 3

\* C8 without its sentence on hallways: one record per room and violated rule
\* (area, narrow dimension, egress window), and without any violation a single
\* pass if rooms exist and a single warn if there are none.
L4OneRecordPerRule ==
    lastCall.called =>
        LET p  == lastCall.project
            l4 == OfLayer(lastCall.results, 4)
            Expect(c) == IF c THEN 1 ELSE 0
        IN  /\ \A i \in 1..Len(p.rooms) :
                  LET room == p.rooms[i]
                  IN  /\ Cardinality(RecordsFor(l4, room, "L4-area")) = Expect(ViolatesArea(room))
                      /\ Cardinality(RecordsFor(l4, room, "L4-dim")) = Expect(ViolatesDimension(room))
                      /\ Cardinality(RecordsFor(l4, room, "L4-egress")) = Expect(LacksEgress(room))
            /\ Len(p.rooms) = 0 =>
                  Len(l4) = 1 /\ l4[1].status = "warn" /\ l4[1].id = <<"L4">>
            /\ ( /\ Len(p.rooms) > 0
                 /\ \A i \in 1..Len(p.rooms) :
                       LET room == p.rooms[i]
                       IN  ~ViolatesArea(room) /\ ~ViolatesDimension(room)
                           /\ ~LacksEgress(room) /\ ~NarrowHallway(room)
                 /\ (p.buildingType = "garage" \/ (HasType(p, "bedroom") /\ HasType(p, "bathroom"))) )
               => Len(l4) = 1 /\ l4[1].status = "pass" /\ l4[1].id = <<"L4">>

\* C8: L4 reports each violation by exactly one record; in particular a hallway
\* whose narrow side is below the hallway minimum width yields exactly one
\* fail record for that hallway; without any violation L4 emits a single pass
\* if rooms exist and a single warn if there are none.
C8_OneRecordPerViolation ==
    /\ L4OneRecordPerRule
    /\ lastCall.called =>
          \A i \in 1..Len(lastCall.project.rooms) :
              NarrowHallway(lastCall.project.rooms[i]) =>
                  Cardinality(FailsFor(lastCall.results, lastCall.project.rooms[i])) = 1

-----------------------------------------------------------------------------
(* SpecL7: rooms that cross, touch or stay inside the buildable rectangle  *)
(* of a 50 x 100 or 40 x 100 lot, with and without setbacks                *)

ShapesL7 ==
    { Room(0, "living", 0, 30, 10, 10, FALSE, 0),
      Room(0, "living", 5, 25, 40, 70, FALSE, 0),
      Room(0, "living", 40, 90, 10, 10, FALSE, 0),
      Room(0, "living", 10, 20, 10, 10, FALSE, 0),
      Room(0, "porch", 0, 0, 50, 100, FALSE, 0) }

JurisdictionsL7 == {"houston", "unincorporated"}

InitL7 ==
    /\ InitEngine
    /\ project \in { Project(j, "single-family", 1, 50, 100, FALSE, rooms) :
                       j \in JurisdictionsL7,
                       rooms \in RoomLists(ShapesL7, MaxRooms) }
    /\ selectedRoom \in {0, Len(project.rooms)}

NextL7 ==
    \/ \E j \in JurisdictionsL7 : SelJurisdictionChange(j)
    \/ \E v \in {40, 50} : InpLotWidthChange(v)
    \/ \E v \in {-5, 5} : InpRoomPropChange("x", v)
    \/ deleteSelected
    \/ openExportModal

SpecL7 == InitL7 /\ [][NextL7]_vars

\* the edges of the buildable rectangle that the bounding box of the non-porch
\* rooms of p crosses
CrossedEdges(p) ==
    LET inside == { i \in 1..Len(p.rooms) : p.rooms[i].type # "porch" }
        sb     == JURISDICTIONS[p.jurisdiction].setbacks
    IN  { e \in {"Left side", "Right side", "Front", "Rear"} :
            \E i \in inside :
               \/ e = "Left side"  /\ p.rooms[i].x < sb.sideInterior
               \/ e = "Right side" /\ p.rooms[i].x + p.rooms[i].width > p.lotWidth - sb.sideInterior
               \/ e = "Front"      /\ p.rooms[i].y < sb.front
               \/ e = "Rear"       /\ p.rooms[i].y + p.rooms[i].height > p.lotDepth - sb.rear }

\* the indexes of the records of rs with the status
WithStatus(rs, st) == { k \in 1..Len(rs) : rs[k].status = st }

\* C9: when the bounding box of the non-exterior rooms crosses the buildable
\* rectangle, L7 emits exactly one fail record, whose witness has one entry
\* for each violated edge and none for the others; a box that only touches an
\* edge violates nothing.  On a 50 x 100 lot with setbacks front 25, rear 5,
\* side 5 a room spanning x in [0, 10] gives exactly one fail record that
\* lists the left edge.
C9_OneCombinedFail ==
    lastCall.called =>
        LET p       == lastCall.project
            l7      == OfLayer(lastCall.results, 7)
            fails   == WithStatus(l7, "fail")
            crossed == CrossedEdges(p)
        IN  /\ crossed = {} => fails = {}
            /\ crossed # {} =>
                  /\ Cardinality(fails) = 1
                  /\ \A k \in fails :
                        LET entries == l7[k].witness[2]
                        IN  /\ Len(entries) = Cardinality(crossed)
                            /\ { entries[n][1] : n \in 1..Len(entries) } = crossed
            /\ ( /\ p.jurisdiction = "houston" /\ p.lotWidth = 50 /\ p.lotDepth = 100
                 /\ Len(p.rooms) = 1 /\ p.rooms[1].type # "porch"
                 /\ p.rooms[1].x = 0 /\ p.rooms[1].width = 10 )
               => /\ Cardinality(fails) = 1
                  /\ \A k \in fails :
                        \E n \in 1..Len(l7[k].witness[2]) : l7[k].witness[2][n][1] = "Left side"

\* the example of the claim, next to a porch that covers the whole lot: one fail
\* that lists the left edge and nothing else
C9_Witness ==
    /\ lastCall.called
    /\ lastCall.project.jurisdiction = "houston"
    /\ lastCall.project.lotWidth = 50
    /\ Len(lastCall.project.rooms) = 2
    /\ lastCall.project.rooms[1].type = "porch"
    /\ lastCall.project.rooms[2].x = 0 /\ lastCall.project.rooms[2].width = 10
    /\ \E k \in 1..Len(lastCall.results) :
          /\ lastCall.results[k].id = <<"L7-setback">>
          /\ lastCall.results[k].status = "fail"
          /\ lastCall.results[k].witness = <<"violations", << <<"Left side", 0, 5>> >> >>

\* the setback records of a result array
SetbackRecords(rs) == SelectSeq(rs, LAMBDA r : r.id = <<"L7-setback">>)

HasInterior(p) == \E i \in 1..Len(p.rooms) : p.rooms[i].type # "porch"

\* C10 as stated: L7 contributes exactly one setback record for every project,
\* a fail when some edge is violated and otherwise a pass, also when the
\* project has no rooms or only exterior rooms.
C10_AlwaysOneSetbackRecord ==
    lastCall.called =>
        LET sr == SetbackRecords(lastCall.results)
        IN  /\ Len(sr) = 1
            /\ sr[1].status = (IF HasInterior(lastCall.project)
                                  /\ CrossedEdges(lastCall.project) # {}
                               THEN "fail" ELSE "pass")

\* C10 as amended: a project with at least one non-exterior room gets exactly
\* one setback record, a fail when some edge is violated and otherwise a pass;
\* a project with no rooms or only exterior rooms gets no setback record.
C10_OneSetbackRecordIfInterior ==
    lastCall.called =>
        LET p  == lastCall.project
            sr == SetbackRecords(lastCall.results)
        IN  IF HasInterior(p)
            THEN /\ Len(sr) = 1
                 /\ sr[1].layer = 7
                 /\ sr[1].status = (IF CrossedEdges(p) # {} THEN "fail" ELSE "pass")
            ELSE Len(sr) = 0

\* a plan of porches only in Houston: L7 holds the survey warn and no setback record
C10_Witness ==
    /\ lastCall.called
    /\ Len(lastCall.project.rooms) > 0
    /\ ~HasInterior(lastCall.project)
    /\ Ids(OfLayer(lastCall.results, 7)) = <<"L7-survey">>

-----------------------------------------------------------------------------
(* SpecEngine: ConstraintEngine.check as a function of the project it is   *)
(* given, degenerate projects included: no rooms, a lot dimension of 0, a  *)
(* jurisdiction key that the table does not have                           *)

\* engine.check(project) by a caller of the engine
EngineCheck == CallCheck(project, check(project))
               /\ UNCHANGED <<project, selectedRoom, rendered, overall, canvas, lastEvent>>

ShapesEngine ==
    { Room(0, "living", 0, 30, 10, 10, FALSE, 20),
      Room(0, "living", 10, 30, 25, 30, FALSE, 40) }

JurisdictionsEngine == {"houston", "austin", "unincorporated", "nowhere"}
BuildingTypesEngine == {"single-family", "triplex"}
StoriesEngine       == {1, 4}
LotWidthsEngine     == {0, 20, 50}
LotDepthsEngine     == {0, 100}

InitEngineInputs ==
    /\ InitEngine
    /\ project \in { Project(j, b, st, lw, ld, sv, rooms) :
                       j \in JurisdictionsEngine, b \in BuildingTypesEngine,
                       st \in StoriesEngine, lw \in LotWidthsEngine,
                       ld \in LotDepthsEngine, sv \in {FALSE},
                       rooms \in RoomLists(ShapesEngine, MaxRooms) }
    /\ selectedRoom = 0

NextEngine == EngineCheck

SpecEngine == InitEngineInputs /\ [][NextEngine]_vars

NoFail(rs) == \A k \in 1..Len(rs) : rs[k].status # "fail"

Degenerate(p) == Len(p.rooms) = 0 \/ p.lotWidth = 0 \/ p.lotDepth = 0

\* C11 as stated: for a project with no rooms, and for a project whose lot
\* width or lot depth is 0, check returns no record with status fail.
C11_DegenerateNeverFails ==
    (lastCall.called /\ Degenerate(lastCall.project)) => NoFail(lastCall.results)

\* the ids of the fail records that depend on the project settings alone
SettingsFails ==
    { <<"L1-units">>, <<"L1-stories">>, <<"L1-stories-multi">>,
      <<"L2-stories">>, <<"L2-units">>, <<"L6-height">>, <<"L6-lotsize">> }

\* C11 as amended: for a project with no rooms the only fail records are the
\* ones that the settings alone cause (building type and stories in L1,
\* stories in L2, height and lot size in L6), and L4 is the single warn that
\* asks for rooms; a lot width or depth of 0 is read as 50 resp. 100, so the
\* call returns what it returns for that lot and no record of its own.
C11_DegenerateFailsFromSettingsOnly ==
    lastCall.called =>
        LET p  == lastCall.project
            rs == lastCall.results
        IN  /\ Len(p.rooms) = 0 =>
                 /\ \A k \in 1..Len(rs) : rs[k].status = "fail" => rs[k].id \in SettingsFails
                 /\ Ids(OfLayer(rs, 4)) = <<"L4">>
                 /\ OfLayer(rs, 4)[1].status = "warn"
            /\ (p.lotWidth = 0 \/ p.lotDepth = 0) =>
                 rs = check([p EXCEPT !.lotWidth = IF @ = 0 THEN 50 ELSE @,
                                      !.lotDepth = IF @ = 0 THEN 100 ELSE @])

\* no rooms on a lot of width 0 with four stories in Austin: the fails are the
\* stories of L1 and L2 and the height of L6, next to the warn of L4
C11_Witness ==
    /\ lastCall.called
    /\ Len(lastCall.project.rooms) = 0
    /\ lastCall.project.lotWidth = 0
    /\ lastCall.project.jurisdiction = "austin"
    /\ \E k \in 1..Len(lastCall.results) : lastCall.results[k].id = <<"L2-stories">>
    /\ \E k \in 1..Len(lastCall.results) : lastCall.results[k].id = <<"L6-height">>
    /\ \E k \in 1..Len(lastCall.results) :
          lastCall.results[k].id = <<"L4">> /\ lastCall.results[k].status = "warn"

\* C12: check with a jurisdiction key that the table does not have returns
\* the array it returns for the same project with the key unincorporated:
\* the setbacks are zero on all sides and neither the survey warn nor the
\* foundation warn is emitted.
C12_UnknownKeyIsUnincorporated ==
    (lastCall.called /\ lastCall.project.jurisdiction \notin DOMAIN JURISDICTIONS) =>
        LET p  == lastCall.project
            rs == lastCall.results
        IN  /\ rs = check([p EXCEPT !.jurisdiction = "unincorporated"])
            /\ \A k \in 1..Len(rs) :
                  /\ rs[k].id # <<"L7-survey">>
                  /\ rs[k].layer = 3 => rs[k].status = "pass"
                  /\ (rs[k].id = <<"L7-setback">> /\ rs[k].status = "pass") =>
                        rs[k].witness = <<"setbacks", 0, 0, 0>>
                  /\ (rs[k].id = <<"L7-setback">> /\ rs[k].status = "fail") =>
                        \A n \in 1..Len(rs[k].witness[2]) :
                           LET e == rs[k].witness[2][n]
                           IN  e[3] = (IF e[1] = "Right side" THEN OrDefault(p.lotWidth, 50)
                                       ELSE IF e[1] = "Rear" THEN OrDefault(p.lotDepth, 100)
                                       ELSE 0)

\* an unknown key with a room at the left lot line: the setback record passes
C12_Witness ==
    /\ lastCall.called
    /\ lastCall.project.jurisdiction = "nowhere"
    /\ Len(lastCall.project.rooms) > 0
    /\ lastCall.project.rooms[1].x = 0
    /\ \E k \in 1..Len(lastCall.results) :
          lastCall.results[k].id = <<"L7-setback">> /\ lastCall.results[k].status = "pass"

-----------------------------------------------------------------------------
(* SpecZoom: the wheel at several pointer positions, from view states at   *)
(* and between the bounds of the scale                                     *)

\* the wheel events of one behaviour
MaxWheel == 2

Views == lastEvent.views
Edits == lastEvent.edits
Downs == lastEvent.downs

PointersZoom == { [x |-> 0, y |-> 0], [x |-> 100, y |-> 37], [x |-> 333, y |-> 250] }

ScalesZoom == { Num(1), <<21, 20>>, Num(6), Num(38), Num(40) }

InitZoom ==
    /\ results = <<>> /\ lastCall = NoCall /\ prevCall = NoCall
    /\ rendered = <<>> /\ overall = "none"
    /\ project = Project("houston", "single-family", 1, 50, 100, FALSE, <<>>)
    /\ selectedRoom = 0
    /\ lastEvent = NoEvent
    /\ canvas \in { [FloorPlanCanvas EXCEPT !.scale = k, !.offsetX = ox, !.offsetY = oy] :
                      k \in ScalesZoom, ox \in { Num(60), Num(-7) }, oy \in { Num(60), <<81, 2>> } }

NextZoom ==
    \/ \E pos \in PointersZoom, deltaY \in {-100, 100} :
          Views < MaxWheel /\ onWheel(pos, deltaY)
    \/ Views < MaxWheel /\ zoomToFit(800, 600)

SpecZoom == InitZoom /\ [][NextZoom]_vars

\* C13: the world coordinate under the pointer is the same before and after
\* onWheel, for either wheel direction, also when the new scale is clamped at
\* 1 or at 40.
C13_ZoomAnchor ==
    lastEvent.kind = "wheel" =>
        LET pos == lastEvent.pos
        IN  screenToWorld(canvas, Num(pos.x), Num(pos.y))
              = screenToWorld(lastEvent.canvas, Num(pos.x), Num(pos.y))

\* a wheel event whose new scale was clamped at 40 from a scale below 40
C13_Witness ==
    /\ lastEvent.kind = "wheel"
    /\ lastEvent.canvas.scale = Num(38)
    /\ canvas.scale = Num(40)
    /\ lastEvent.pos = [x |-> 100, y |-> 37]
    /\ canvas.offsetX # lastEvent.canvas.offsetX

-----------------------------------------------------------------------------
(* The application once its script has run: the constraints have been      *)
(* checked and rendered for the plan, and the tool mode is set.            *)

StartedWith(p, r, sel, c) ==
    /\ project = p
    /\ selectedRoom = sel
    /\ results = r
    /\ lastCall = [called |-> TRUE, project |-> p, results |-> r]
    /\ prevCall = NoCall
    /\ rendered = r
    /\ overall = worstStatus(r)
    /\ canvas = c
    /\ lastEvent = NoEvent

Started(rooms, sel, mode) ==
    StartedWith(Project("houston", "single-family", 1, 50, 100, FALSE, rooms),
                check(Project("houston", "single-family", 1, 50, 100, FALSE, rooms)),
                sel, [FloorPlanCanvas EXCEPT !.mode = mode])

-----------------------------------------------------------------------------
(* SpecDraw: draw gestures in every direction between four points, seen at *)
(* 6 pixels per foot from the offset (60, 60)                              *)

\* the pointer-down events of one behaviour
MaxDowns == 2

\* the world points (0, 5), (4, 1), (6, 7) and (4.67, 6.83), which snaps to (5, 7)
PointersDraw ==
    { [x |-> 60, y |-> 90], [x |-> 84, y |-> 66], [x |-> 96, y |-> 102],
      [x |-> 88, y |-> 101] }

InitDraw == Started(<<>>, 0, "draw")

NextDraw ==
    \/ \E pos \in PointersDraw : Downs < MaxDowns /\ onMouseDown(pos, 0)
    \/ \E pos \in PointersDraw : onMouseMove(pos)
    \/ \E now \in Clock : onMouseUp(now)

SpecDraw == InitDraw /\ [][NextDraw]_vars

\* the pointer-up events that end a draw gesture
EndsDraw == lastEvent.kind = "up" /\ lastEvent.canvas.drawing

\* C15: a pointer-up that ends a draw gesture adds exactly one room iff the
\* snapped corners differ by at least 2 ft on both axes; the room has the
\* smaller x and y of the corners, the absolute differences as width and
\* height, is the last of the list and is the selected room; otherwise the
\* room list and the selection are as before.
C15_DrawCommit ==
    EndsDraw =>
        LET a   == lastEvent.canvas.drawStart
            b   == lastEvent.canvas.drawEnd
            big == Abs(b.x - a.x) >= 2 /\ Abs(b.y - a.y) >= 2
            n   == Len(lastEvent.rooms)
        IN  IF big
            THEN /\ Len(project.rooms) = n + 1
                 /\ SubSeq(project.rooms, 1, n) = lastEvent.rooms
                 /\ project.rooms[n + 1].x = (IF a.x < b.x THEN a.x ELSE b.x)
                 /\ project.rooms[n + 1].y = (IF a.y < b.y THEN a.y ELSE b.y)
                 /\ project.rooms[n + 1].width = Abs(b.x - a.x)
                 /\ project.rooms[n + 1].height = Abs(b.y - a.y)
                 /\ project.rooms[n + 1].width > 0 /\ project.rooms[n + 1].height > 0
                 /\ selectedRoom = n + 1
            ELSE /\ project.rooms = lastEvent.rooms
                 /\ selectedRoom = lastEvent.selectedRoom

\* a gesture dragged up and to the left, from (6, 7) to (4, 1): the room is
\* 2 x 6 at (4, 1), the second of the list and selected
C15_Witness ==
    /\ EndsDraw
    /\ lastEvent.canvas.drawStart = [x |-> 6, y |-> 7]
    /\ lastEvent.canvas.drawEnd = [x |-> 4, y |-> 1]
    /\ Len(project.rooms) = 2
    /\ project.rooms[2].x = 4 /\ project.rooms[2].y = 1
    /\ project.rooms[2].width = 2 /\ project.rooms[2].height = 6
    /\ selectedRoom = 2

-----------------------------------------------------------------------------
(* SpecSnap: the corners of a draw gesture, snapped at several zoom scales *)

PointersSnap == { [x |-> 69, y |-> 88], [x |-> 101, y |-> 63], [x |-> 57, y |-> 130] }

InitSnap == Started(<<>>, 0, "draw")

NextSnap ==
    \/ \E pos \in PointersSnap : Downs < MaxDowns /\ onMouseDown(pos, 0)
    \/ \E pos \in PointersSnap : onMouseMove(pos)
    \/ \E pos \in PointersSnap, deltaY \in {-100, 100} :
          Views < MaxWheel /\ onWheel(pos, deltaY)

SpecSnap == InitSnap /\ [][NextSnap]_vars

\* x is what snapToGrid made of the world coordinate v, and snapToGrid leaves it
SnappedOnce(c, v, x) == x = snapToGrid(c, v) /\ snapToGrid(c, Num(x)) = x

\* C14: snapToGrid(snapToGrid(v)) = snapToGrid(v) for the world coordinates
\* of every pointer position, and the grid unit is 1 foot at every zoom scale.
C14_SnapIdempotent ==
    /\ canvas.gridSize = 1
    /\ (lastEvent.kind \in {"down", "move"} /\ canvas.drawing) =>
          LET c     == lastEvent.canvas
              world == screenToWorld(c, Num(lastEvent.pos.x), Num(lastEvent.pos.y))
          IN  /\ SnappedOnce(c, world.x, canvas.drawEnd.x)
              /\ SnappedOnce(c, world.y, canvas.drawEnd.y)

\* a corner snapped after two wheel events, from a world coordinate that is
\* not whole
C14_Witness ==
    /\ lastEvent.kind = "move"
    /\ canvas.drawing
    /\ lastEvent.views = 2
    /\ canvas.scale # Num(6)
    /\ screenToWorld(canvas, Num(lastEvent.pos.x), Num(lastEvent.pos.y)).x[2] # 1
    /\ canvas.drawEnd.x = snapToGrid(canvas, screenToWorld(canvas, Num(lastEvent.pos.x), Num(lastEvent.pos.y)).x)

-----------------------------------------------------------------------------
(* SpecSelect: pointer events in select mode on two overlapping 10 x 10    *)
(* rooms, the second added on top of the first                             *)

\* the pointer-down events in select mode of one behaviour
MaxEdits == 1

RoomsSelect ==
    << Room(1, "living", 0, 0, 10, 10, FALSE, 0),
       Room(2, "bedroom", 5, 5, 10, 10, TRUE, 0) >>

\* the world points (10, 10): a corner of the first room inside the second;
\* (7.5, 7.5): in both rooms, near no handle; (2.5, 2.5): in the first room;
\* (0, 5): the left edge of the first room; (25, 1): in no room;
\* (12.5, 12.5): in the second room
PointersSelect ==
    { [x |-> 120, y |-> 120], [x |-> 105, y |-> 105], [x |-> 75, y |-> 75],
      [x |-> 60, y |-> 90], [x |-> 210, y |-> 66], [x |-> 135, y |-> 135] }

InitSelect == \E sel \in 0..2 : Started(RoomsSelect, sel, "select")

NextSelect ==
    \/ \E pos \in PointersSelect :
          Edits < MaxEdits /\ Downs < MaxDowns /\ onMouseDown(pos, 0)
    \/ \E pos \in PointersSelect : onMouseMove(pos)
    \/ \E now \in Clock : onMouseUp(now)

SpecSelect == InitSelect /\ [][NextSelect]_vars

\* the screen positions of the eight handles of a room, by name
HandlePoint(c, room, key) ==
    LET left   == NumAdd(NumMul(Num(room.x), c.scale), c.offsetX)
        right  == NumAdd(NumMul(Num(room.x + room.width), c.scale), c.offsetX)
        top    == NumAdd(NumMul(Num(room.y), c.scale), c.offsetY)
        bottom == NumAdd(NumMul(Num(room.y + room.height), c.scale), c.offsetY)
        midX   == NumDiv(NumAdd(left, right), Num(2))
        midY   == NumDiv(NumAdd(top, bottom), Num(2))
    IN  [ x |-> IF key \in {"nw", "w", "sw"} THEN left
                ELSE IF key \in {"ne", "e", "se"} THEN right ELSE midX,
          y |-> IF key \in {"nw", "n", "ne"} THEN top
                ELSE IF key \in {"sw", "s", "se"} THEN bottom ELSE midY ]

HandleKeys == {"nw", "ne", "sw", "se", "n", "s", "e", "w"}

\* the handles of the room whose 8-pixel region holds the position
HandlesAt(c, room, pos) ==
    { key \in HandleKeys :
        /\ NumLess(NumAbs(NumSub(Num(pos.x), HandlePoint(c, room, key).x)), Num(8))
        /\ NumLess(NumAbs(NumSub(Num(pos.y), HandlePoint(c, room, key).y)), Num(8)) }

\* the rooms of the list whose rectangle holds the world point of the position
RoomsAt(c, rooms, pos) ==
    LET wx == NumDiv(NumSub(Num(pos.x), c.offsetX), c.scale)
        wy == NumDiv(NumSub(Num(pos.y), c.offsetY), c.scale)
    IN  { i \in 1..Len(rooms) :
            /\ NumLeq(Num(rooms[i].x), wx) /\ NumLeq(wx, Num(rooms[i].x + rooms[i].width))
            /\ NumLeq(Num(rooms[i].y), wy) /\ NumLeq(wy, Num(rooms[i].y + rooms[i].height)) }

SelectDown == lastEvent.kind = "down" /\ lastEvent.button = 0
                 /\ lastEvent.canvas.mode = "select"

\* C16: a pointer-down in select mode starts a resize of the selected room
\* when it is in the 8-pixel region of one of its handles, and leaves the
\* selection alone, whatever room lies on top there; otherwise it selects the
\* last-added room that holds the point and starts a drag; with no such room
\* it clears the selection.
C16_HandlesBeforeRooms ==
    SelectDown =>
        LET c     == lastEvent.canvas
            sel   == lastEvent.selectedRoom
            rooms == lastEvent.rooms
            at    == IF sel = 0 THEN {} ELSE HandlesAt(c, rooms[sel], lastEvent.pos)
            under == RoomsAt(c, rooms, lastEvent.pos)
        IN  IF at # {}
            THEN /\ canvas.resizing /\ canvas.resizeHandle \in at
                 /\ selectedRoom = sel
                 /\ canvas.dragOffset = c.dragOffset
            ELSE IF under # {}
            THEN /\ selectedRoom \in under /\ \A i \in under : i <= selectedRoom
                 /\ canvas.dragOffset # Null
                 /\ canvas.resizing = c.resizing
            ELSE /\ selectedRoom = 0
                 /\ canvas.dragOffset = c.dragOffset /\ canvas.resizing = c.resizing

\* the first room is selected and the pointer goes down on its corner
\* (10, 10), which lies inside the second room: the corner is resized
C16_Witness ==
    /\ SelectDown
    /\ lastEvent.selectedRoom = 1
    /\ lastEvent.pos = [x |-> 120, y |-> 120]
    /\ 2 \in RoomsAt(lastEvent.canvas, lastEvent.rooms, lastEvent.pos)
    /\ canvas.resizing /\ canvas.resizeHandle = "se"
    /\ selectedRoom = 1

\* the pointer-move events that resize the selected room
ResizeMove ==
    /\ lastEvent.kind = "move"
    /\ lastEvent.canvas.resizing /\ lastEvent.selectedRoom # 0
    /\ lastEvent.canvas.resizeHandle # ""
    /\ ~(lastEvent.canvas.panning /\ lastEvent.canvas.panStart # Null)
    /\ ~(lastEvent.canvas.drawing /\ lastEvent.canvas.drawStart # Null)

\* C17: for each of the eight handles, a resize whose pointer position would
\* make the width (or the height) of the room less than 2 ft sets it to
\* exactly 2 ft.
C17_ResizeClamps ==
    ResizeMove =>
        LET c      == lastEvent.canvas
            before == lastEvent.rooms[lastEvent.selectedRoom]
            after  == project.rooms[lastEvent.selectedRoom]
            px     == MathRound(NumDiv(NumSub(Num(lastEvent.pos.x), c.offsetX), c.scale))
            py     == MathRound(NumDiv(NumSub(Num(lastEvent.pos.y), c.offsetY), c.scale))
            key    == c.resizeHandle
            wouldW == IF key \in {"ne", "e", "se"} THEN px - before.x
                      ELSE IF key \in {"nw", "w", "sw"} THEN before.x + before.width - px
                      ELSE before.width
            wouldH == IF key \in {"sw", "s", "se"} THEN py - before.y
                      ELSE IF key \in {"nw", "n", "ne"} THEN before.y + before.height - py
                      ELSE before.height
        IN  /\ wouldW < 2 => after.width = 2
            /\ wouldH < 2 => after.height = 2

-----------------------------------------------------------------------------
(* SpecGestures: pointer-down with the left and the middle button,         *)
(* pointer-move, pointer-up and mode changes in any order, on a plan of    *)
(* one 10 x 10 room                                                        *)


RoomsGestures == << Room(1, "living", 0, 0, 10, 10, FALSE, 0) >>

\* the world points (10, 10), a corner of the room, and (2.5, 2.5) inside it
PointersGestures == { [x |-> 120, y |-> 120], [x |-> 75, y |-> 75] }

InitGestures == \E sel \in 0..1 : Started(RoomsGestures, sel, "draw")

NextGestures ==
    \/ \E pos \in PointersGestures, button \in {0, 1} :
          Downs < MaxDowns /\ onMouseDown(pos, button)
    \/ \E pos \in PointersGestures : onMouseMove(pos)
    \/ \E now \in Clock : onMouseUp(now)
    \/ \E mode \in {"select", "draw", "pan"} : setMode(mode)

SpecGestures == InitGestures /\ [][NextGestures]_vars

\* C18: after every pointer-up drawing, panning and resizing are false and
\* drawStart, drawEnd, panStart, resizeHandle and dragOffset are null; a
\* pointer-move that follows with no pointer-down in between changes no room
\* and no view offset.
C18_PointerUpClearsAll ==
    /\ lastEvent.kind = "up" =>
          /\ ~canvas.drawing /\ ~canvas.panning /\ ~canvas.resizing
          /\ canvas.drawStart = Null /\ canvas.drawEnd = Null
          /\ canvas.panStart = Null /\ canvas.resizeHandle = ""
          /\ canvas.dragOffset = Null
    /\ (lastEvent.kind = "move" /\ lastEvent.afterUp) =>
          /\ project.rooms = lastEvent.rooms
          /\ canvas.offsetX = lastEvent.canvas.offsetX
          /\ canvas.offsetY = lastEvent.canvas.offsetY

\* a pointer-up that found a pan and a drag both set, and cleared them
C18_Witness ==
    /\ lastEvent.kind = "up"
    /\ lastEvent.canvas.panning
    /\ lastEvent.canvas.dragOffset # Null
    /\ ~canvas.panning /\ canvas.dragOffset = Null /\ canvas.panStart = Null

\* the gestures that are active in a canvas state
Active(c) ==
    { g \in {"pan", "draw", "resize", "drag"} :
        \/ g = "pan" /\ c.panning
        \/ g = "draw" /\ c.drawing
        \/ g = "resize" /\ c.resizing
        \/ g = "drag" /\ c.dragOffset # Null }

\* C19: in every reachable state at most one of the gestures pan, draw,
\* resize and drag is active.
C19_OneGestureAtATime == Cardinality(Active(canvas)) <= 1

-----------------------------------------------------------------------------
(* SpecApp: every event of the application that changes the project, on a  *)
(* plan that starts empty or with one 10 x 10 living room                  *)

RoomsApp == { << Room(1, "living", 0, 0, 10, 10, FALSE, 0) >> }

\* the world points (2.5, 2.5) and (10, 10)
PointersApp == { [x |-> 75, y |-> 75], [x |-> 120, y |-> 120] }

InitApp ==
    \/ \E rooms \in RoomsApp : Started(rooms, 1, "select")
    \/ Started(<<>>, 0, "draw")

NextApp ==
    \/ SelJurisdictionChange("austin")
    \/ SelRoomTypeChange("bedroom")
    \/ InpRoomLabelInput("Den")
    \/ deleteSelected
    \/ \E pos \in PointersApp : Edits < MaxEdits /\ Downs < MaxDowns /\ onMouseDown(pos, 0)
    \/ \E pos \in PointersApp : onMouseMove(pos)
    \/ \E now \in Clock : onMouseUp(now)
    \/ \E label \in { Null, [text |-> "Den"] } : onDblClick([x |-> 75, y |-> 75], label)
    \/ KeyEscape

SpecApp == InitApp /\ [][NextApp]_vars

\* C20: after every event that changes the project the result set last
\* rendered is, record for record, what check returns on the project as it
\* is: the displayed results are never stale.
C20_RenderedIsCurrent == rendered = check(project)

-----------------------------------------------------------------------------
(* Room ids                                                                *)

\* C22: in every reachable state no two rooms of the plan have the same id,
\* whatever the clock reads when the draw gestures are committed.
C22_UniqueIds ==
    \A i, j \in 1..Len(project.rooms) :
        i # j => project.rooms[i].id # project.rooms[j].id

-----------------------------------------------------------------------------
(* SpecSelection: draw and select gestures, the delete key and the escape  *)
(* key in any order, on a plan of one 10 x 10 room                         *)

InitSelection == \E sel \in 0..1 : Started(RoomsGestures, sel, "draw")

NextSelection ==
    \/ \E pos \in PointersGestures : Downs < MaxDowns /\ onMouseDown(pos, 0)
    \/ \E pos \in PointersGestures : onMouseMove(pos)
    \/ \E now \in Clock : onMouseUp(now)
    \/ setMode("draw")
    \/ deleteSelected
    \/ KeyEscape

SpecSelection == InitSelection /\ [][NextSelection]_vars

\* C25: in every reachable state selectedRoom is null or a room of
\* project.rooms; deleteSelected, the escape key, a new selection and a draw
\* commit never leave it at a room that is no longer in the plan.
C25_SelectionInPlan == selectedRoom \in 0..Len(project.rooms)

\* the startup room has been deleted and a room drawn later is selected
C25_Witness ==
    /\ Len(project.rooms) = 1
    /\ selectedRoom = 1
    /\ project.rooms[1] # RoomsGestures[1]
    /\ lastEvent.kind = "up"

-----------------------------------------------------------------------------
(* SpecEdit: draw, drag and resize gestures on a plan that starts empty,   *)
(* seen as the constructor leaves the view and as one wheel step at the    *)
(* pointer (90, 60) leaves it                                              *)

\* at 6 pixels per foot from the offset (60, 60) the world points (0, 0),
\* (10, 10), (5, 5) and (5, 0); at 5.4 pixels per foot from (63, 60) the
\* points (-0.56, 0), (10.56, 11.11), (5, 5.56) and (5, 0)
PointersEdit ==
    { [x |-> 60, y |-> 60], [x |-> 120, y |-> 120], [x |-> 90, y |-> 90],
      [x |-> 90, y |-> 60] }

ViewsEdit ==
    { FloorPlanCanvas,
      [FloorPlanCanvas EXCEPT !.scale = <<27, 5>>, !.offsetX = Num(63)] }

InitEdit ==
    \E view \in ViewsEdit :
        StartedWith(Project("houston", "single-family", 1, 50, 100, FALSE, <<>>),
                    check(Project("houston", "single-family", 1, 50, 100, FALSE, <<>>)),
                    0, [view EXCEPT !.mode = "draw"])

NextEdit ==
    \/ \E pos \in PointersEdit : Downs < MaxDowns /\ onMouseDown(pos, 0)
    \/ \E pos \in PointersEdit : onMouseMove(pos)
    \* the clock advances from one commit to the next
    \/ onMouseUp(Len(project.rooms) + 1)
    \/ setMode("select")

SpecEdit == InitEdit /\ [][NextEdit]_vars

\* C24: after any sequence of draw, drag and resize gestures every room is at
\* least 2 ft wide and 2 ft high.
C24_AtLeastTwoFeet ==
    \A i \in 1..Len(project.rooms) :
        project.rooms[i].width >= 2 /\ project.rooms[i].height >= 2

\* a resize has just stopped at 2 ft a width that the pointer would make smaller
C24_Witness ==
    /\ ResizeMove
    /\ project.rooms[lastEvent.selectedRoom].width = 2
    /\ lastEvent.rooms[lastEvent.selectedRoom].width > 2
    /\ LET c == lastEvent.canvas
       IN  MathRound(NumDiv(NumSub(Num(lastEvent.pos.x), c.offsetX), c.scale))
              - lastEvent.rooms[lastEvent.selectedRoom].x < 2

\* the coordinates and sizes of the rooms
RoomNumbers ==
    UNION { { project.rooms[i].x, project.rooms[i].y,
              project.rooms[i].width, project.rooms[i].height } :
            i \in 1..Len(project.rooms) }

-----------------------------------------------------------------------------
(* SpecResize: pointer events in select mode on one selected 10 x 10 room, *)
(* with the pointer at each of its eight handles, inside it and outside it *)

\* where the pointer goes down: the world points of the handles nw, ne, sw,
\* se, n, s, e, w of the room and (2.5, 2.5) inside it
PointersResize ==
    { [x |-> 60, y |-> 60], [x |-> 120, y |-> 60], [x |-> 60, y |-> 120],
      [x |-> 120, y |-> 120], [x |-> 90, y |-> 60], [x |-> 90, y |-> 120],
      [x |-> 120, y |-> 90], [x |-> 60, y |-> 90], [x |-> 75, y |-> 75] }

\* where it moves to: (2.5, 2.5) inside the room, (13, 12) and (-3, 9.5)
\* outside it
TargetsResize ==
    { [x |-> 75, y |-> 75], [x |-> 138, y |-> 132], [x |-> 42, y |-> 117] }

InitResize == Started(RoomsGestures, 1, "select")

NextResize ==
    \/ \E pos \in PointersResize :
          Edits < MaxEdits /\ Downs < MaxDowns /\ onMouseDown(pos, 0)
    \/ \E pos \in TargetsResize : onMouseMove(pos)
    \/ onMouseUp(Len(project.rooms) + 1)

SpecResize == InitResize /\ [][NextResize]_vars

\* the pointer-move events that drag the selected room
DragMove ==
    /\ lastEvent.kind = "move"
    /\ lastEvent.selectedRoom # 0 /\ lastEvent.canvas.dragOffset # Null
    /\ ~lastEvent.canvas.resizing
    /\ ~(lastEvent.canvas.panning /\ lastEvent.canvas.panStart # Null)
    /\ ~(lastEvent.canvas.drawing /\ lastEvent.canvas.drawStart # Null)

\* C30: a resize keeps the edge opposite to the handle where it is: with a
\* west handle (w, nw, sw) x + width is unchanged, with a north handle
\* (n, nw, ne) y + height, with an east handle (e, ne, se) x and with a south
\* handle (s, se, sw) y; a drag changes x and y only and leaves width and
\* height as they are.
C30_OppositeEdgeFixed ==
    LET before == lastEvent.rooms[lastEvent.selectedRoom]
        after  == project.rooms[lastEvent.selectedRoom]
        key    == lastEvent.canvas.resizeHandle
    IN  /\ ResizeMove =>
              /\ key \in {"w", "nw", "sw"} => after.x + after.width = before.x + before.width
              /\ key \in {"n", "nw", "ne"} => after.y + after.height = before.y + before.height
              /\ key \in {"e", "ne", "se"} => after.x = before.x
              /\ key \in {"s", "se", "sw"} => after.y = before.y
        /\ DragMove =>
              /\ after.width = before.width /\ after.height = before.height
              /\ [after EXCEPT !.x = before.x, !.y = before.y] = before

\* the nw handle has just moved the left and the top edge of the room
C30_Witness ==
    /\ ResizeMove
    /\ lastEvent.canvas.resizeHandle = "nw"
    /\ project.rooms[lastEvent.selectedRoom].x # lastEvent.rooms[lastEvent.selectedRoom].x
    /\ project.rooms[lastEvent.selectedRoom].y # lastEvent.rooms[lastEvent.selectedRoom].y

-----------------------------------------------------------------------------
(* SpecPanel: pointer gestures in select and in draw mode and edits of    *)
(* the size fields of the room panel, from one selected 10 x 10 room       *)

\* what parseFloat(value) || 0 gives for the field texts "12" and "" (or "0")
SizesPanel == {12, 0}

InitPanel == Started(RoomsGestures, 1, "select")

NextPanel ==
    \/ ChipClick("bedroom")
    \/ \E prop \in {"width", "height"}, v \in SizesPanel : InpRoomPropChange(prop, v)
    \/ \E pos \in PointersGestures :
          Edits < MaxEdits /\ Downs < MaxDowns /\ onMouseDown(pos, 0)
    \/ \E pos \in PointersGestures : onMouseMove(pos)
    \/ onMouseUp(Len(project.rooms) + 1)

SpecPanel == InitPanel /\ [][NextPanel]_vars

\* C21: in every reachable state every room of the plan has width > 0 and
\* height > 0, under pointer gestures and under edits of the width and
\* height fields of the room panel.
C21_PositiveSizes ==
    \A i \in 1..Len(project.rooms) :
        project.rooms[i].width > 0 /\ project.rooms[i].height > 0

-----------------------------------------------------------------------------
(* SpecView: pan gestures, the wheel, zoomToFit and mode changes, mixed    *)
(* with gestures of the left button, on one selected 10 x 10 room          *)

\* the pointer goes down at the world point (2.5, 2.5), inside the room, and
\* moves to (13, 12), outside it
DownView == [x |-> 75, y |-> 75]

MoveView == [x |-> 138, y |-> 132]

InitView == Started(RoomsGestures, 1, "select")

NextView ==
    \/ \E button \in {0, 1} :
          /\ Downs < MaxDowns /\ (button = 0 => Edits < MaxEdits)
          /\ onMouseDown(DownView, button)
    \/ onMouseMove(MoveView)
    \/ onMouseUp(Len(project.rooms) + 1)
    \/ Views < MaxWheel /\ onWheel(MoveView, -100)
    \/ Views < MaxWheel /\ zoomToFit(800, 600)
    \/ setMode("pan")

SpecView == InitView /\ [][NextView]_vars

\* the pointer-down events that start a pan gesture
PanDown ==
    /\ lastEvent.kind = "down"
    /\ lastEvent.button \in {1, 2} \/ lastEvent.canvas.mode = "pan"

\* the pointer-move events of a pan gesture
PanMove ==
    /\ lastEvent.kind = "move"
    /\ lastEvent.canvas.panning /\ lastEvent.canvas.panStart # Null

\* the events of the view operations
ViewEvent == PanDown \/ PanMove \/ lastEvent.kind \in {"wheel", "fit", "mode"}

-----------------------------------------------------------------------------
(* SpecPan: pan gestures in pan mode on an empty plan, with wheel events   *)
(* before and between their moves                                          *)

\* the scale is 6, or 40, where wheeling in leaves it as it is
ScalesPan == { Num(6), Num(40) }

PointersPan == { [x |-> 75, y |-> 75], [x |-> 138, y |-> 132], [x |-> 60, y |-> 91] }

InitPan ==
    \E k \in ScalesPan :
        StartedWith(Project("houston", "single-family", 1, 50, 100, FALSE, <<>>),
                    check(Project("houston", "single-family", 1, 50, 100, FALSE, <<>>)),
                    0, [FloorPlanCanvas EXCEPT !.mode = "pan", !.scale = k])

NextPan ==
    \/ \E pos \in PointersPan : Downs < MaxDowns /\ onMouseDown(pos, 0)
    \/ \E pos \in PointersPan : onMouseMove(pos)
    \/ onMouseUp(Len(project.rooms) + 1)
    \/ \E deltaY \in {-100, 100} :
          Views < MaxWheel /\ onWheel([x |-> 138, y |-> 132], deltaY)

SpecPan == InitPan /\ [][NextPan]_vars

\* the world point under the pointer of the last event, after it
WorldUnderPointer == screenToWorld(canvas, Num(lastEvent.pos.x), Num(lastEvent.pos.y))

\* C28 as stated: throughout a pan gesture, after each pointer-move the world
\* point under the pointer is the one that was under it at pointer-down, also
\* when wheel events occur between the moves.
C28_PanAnchor ==
    PanMove => WorldUnderPointer = lastEvent.anchor.world

\* C28, amended: throughout a pan gesture, after each pointer-move at which
\* the scale is the one of the pointer-down, the world point under the
\* pointer is the one that was under it at pointer-down; wheel events
\* between the moves that leave the scale as it was do not change this.
C28_PanAnchorAtScale ==
    (PanMove /\ canvas.scale = lastEvent.anchor.scale) =>
        WorldUnderPointer = lastEvent.anchor.world

\* a pointer-move of a pan gesture has moved the view, after a wheel event
\* inside the gesture that was clamped at the scale of the pointer-down
C28_Witness ==
    /\ PanMove
    /\ canvas.scale = lastEvent.anchor.scale
    /\ lastEvent.anchor.wheels > 0
    /\ canvas.offsetX # lastEvent.canvas.offsetX
    /\ lastEvent.pos.x # lastEvent.canvas.panStart.x
    /\ canvas.offsetX # lastEvent.canvas.panStart.ox

-----------------------------------------------------------------------------
(* SpecRooms: rooms are drawn on an empty plan with a type chosen from the *)
(* palette, then dragged, resized and edited through the room panel        *)

\* the world points (0, 0) and (10, 10)
PointersRooms == { [x |-> 60, y |-> 60], [x |-> 120, y |-> 120] }

InitRooms == Started(<<>>, 0, "draw")

NextRooms ==
    \/ \E pos \in PointersRooms :
          /\ Downs < MaxDowns /\ Edits < MaxEdits
          /\ onMouseDown(pos, 0)
    \/ \E pos \in PointersRooms : onMouseMove(pos)
    \/ onMouseUp(Len(project.rooms) + 1)
    \/ setMode("select")
    \/ SelRoomTypeChange("kitchen")
    \/ InpRoomLabelInput("Den")
    \/ InpRoomPropChange("width", 12)

SpecRooms == InitRooms /\ [][NextRooms]_vars

IsL5(r) == r.layer = 5

\* C29: every room made in the editor (drawn, then moved, resized, retyped,
\* relabelled or edited through the room panel) has windowArea = 0, and on
\* every such plan L5 gives exactly one record, the informational pass, and
\* never the window-to-wall-ratio warn.
C29_NoWindowsNoRatio ==
    /\ \A i \in 1..Len(project.rooms) : project.rooms[i].windowArea = 0
    /\ SelectSeq(check(project), IsL5)
         = << Result(<<"L5">>, "Energy Code", 5, "pass",
                     <<"applies", LookupJurisdiction(project.jurisdiction).energyCode>>,
                     <<"Texas Climate Zone 2-3">>, <<>>) >>

\* a drawn room has been retyped, relabelled and given a width in the panel,
\* and has exterior walls
C29_Witness ==
    /\ Len(project.rooms) > 0
    /\ project.rooms[1].type = "kitchen" /\ project.rooms[1].label = "Den"
    /\ project.rooms[1].width = 12
    /\ calcExteriorWallArea(project) > 0

-----------------------------------------------------------------------------
(* The statistics panel (unnamed/part_003 updateStats)                     *)

NotExterior(room) == ~IsExterior(room)

\* rooms.reduce((s, r) => s + r.width * r.height, 0), from the i-th room on
RECURSIVE ReduceArea(_, _, _)
ReduceArea(rooms, i, s) ==
    IF i > Len(rooms) THEN s
    ELSE ReduceArea(rooms, i + 1, s + rooms[i].width * rooms[i].height)

\* rooms.reduce((m, r) => Math.max(m, Math.min(r.width, r.height)), 0)
RECURSIVE ReduceSpan(_, _, _)
ReduceSpan(rooms, i, m) ==
    IF i > Len(rooms) THEN m
    ELSE ReduceSpan(rooms, i + 1, Max(m, Min(rooms[i].width, rooms[i].height)))

\* x.toFixed(1) as a number: the nearest tenth, a half goes up
ToFixed1(x) == Frac(MathRound(NumMul(x, Num(10))), 10)

\* a variant that does not leave out the exterior rooms
updateStats_AllRooms(p) ==
    LET rooms         == p.rooms
        totalArea     == ReduceArea(rooms, 1, 0)
        maxSpan       == ReduceSpan(rooms, 1, 0)
        lotArea       == p.lotWidth * p.lotDepth
        coverage      == IF lotArea > 0 THEN NumMul(Frac(totalArea, lotArea), Num(100))
                         ELSE Num(0)
        sb            == IF p.jurisdiction \in DOMAIN JURISDICTIONS
                         THEN JURISDICTIONS[p.jurisdiction].setbacks
                         ELSE [front |-> 0, rear |-> 0, sideInterior |-> 0]
        buildableW    == p.lotWidth - sb.sideInterior * 2
        buildableD    == p.lotDepth - sb.front - sb.rear
    IN  [ totalArea |-> totalArea, maxSpan |-> maxSpan, rooms |-> Len(rooms),
          lotArea |-> lotArea, coverage |-> coverage,
          sumSpan |-> ToFixed1(Num(maxSpan)), sumCoverage |-> ToFixed1(coverage),
          buildableArea |-> buildableW * buildableD,
          beds |-> CountType(rooms, "bedroom"), baths |-> CountType(rooms, "bathroom") ]

\* the numbers that updateStats computes from the project and the ones it
\* shows: totalArea, maxSpan and the room count on the canvas overlay and in
\* the summary panel, sumSpan and sumCoverage as rounded to one decimal
updateStats(p) ==
    LET rooms         == p.rooms
        interiorRooms == SelectSeq(rooms, NotExterior)
        totalArea     == ReduceArea(interiorRooms, 1, 0)
        maxSpan       == ReduceSpan(interiorRooms, 1, 0)
        lotArea       == p.lotWidth * p.lotDepth
        coverage      == IF lotArea > 0 THEN NumMul(Frac(totalArea, lotArea), Num(100))
                         ELSE Num(0)
        sb            == IF p.jurisdiction \in DOMAIN JURISDICTIONS
                         THEN JURISDICTIONS[p.jurisdiction].setbacks
                         ELSE [front |-> 0, rear |-> 0, sideInterior |-> 0]
        buildableW    == p.lotWidth - sb.sideInterior * 2
        buildableD    == p.lotDepth - sb.front - sb.rear
    IN  [ totalArea |-> totalArea, maxSpan |-> maxSpan, rooms |-> Len(rooms),
          lotArea |-> lotArea, coverage |-> coverage,
          sumSpan |-> ToFixed1(Num(maxSpan)), sumCoverage |-> ToFixed1(coverage),
          buildableArea |-> buildableW * buildableD,
          beds |-> CountType(rooms, "bedroom"), baths |-> CountType(rooms, "bathroom") ]

-----------------------------------------------------------------------------
(* SpecStats: the settings and room panel of the page on a plan of a       *)
(* living room and a porch; every handler ends in runConstraints, which    *)
(* calls updateStats                                                       *)

RoomsStats ==
    << Room(1, "living", 0, 0, 10, 10, FALSE, 0),
       Room(2, "porch", 0, 10, 10, 6, FALSE, 0) >>

InitStats == \E sel \in 1..2 : Started(RoomsStats, sel, "select")

NextStats ==
    \/ \E j \in {"austin", "unincorporated"} : SelJurisdictionChange(j)
    \/ \E v \in {0, 5, 12} : InpLotWidthChange(v)
    \/ \E v \in {0, 5, 12} : InpLotDepthChange(v)
    \/ \E t \in {"porch", "bedroom"} : SelRoomTypeChange(t)
    \/ \E v \in {0, 13} : InpRoomPropChange("width", v)
    \/ deleteSelected

SpecStats == InitStats /\ [][NextStats]_vars

\* C23: for every reachable project the statistics are computed as the rule
\* engine computes them: the total area and the max span of the statistics
\* panel are calcTotalArea and calcMaxSpan of the project, and its lot
\* coverage is the ratio of total area to lot area that L6 compares with the
\* maximum of the jurisdiction: L6 fails exactly when that coverage is above
\* the maximum, reports it rounded to a whole percent, and names the same
\* footprint and lot area; the panel shows it rounded to a tenth of a percent.
C23_StatsAgree ==
    LET s  == updateStats(project)
        j  == LookupJurisdiction(project.jurisdiction)
        l6 == L6Coverage(project, j)
    IN  /\ s.totalArea = calcTotalArea(project)
        /\ s.maxSpan = calcMaxSpan(project)
        /\ s.sumCoverage = ToFixed1(s.coverage)
        /\ l6 # <<>> =>
              /\ l6[1].message[2] = MathRound(s.coverage)
              /\ l6[1].status = "fail" <=> NumLess(Num(j.maxLotCoverage), s.coverage)
              /\ l6[1].status = "fail" =>
                    l6[1].witness[2] = s.totalArea /\ l6[1].witness[3] = s.lotArea

\* a plan with a porch, whose area does not count, on a lot that the panel
\* clamped to 10 ft: L6 fails on the coverage, which is no whole percent
C23_Witness ==
    /\ \E i \in 1..Len(project.rooms) : IsExterior(project.rooms[i])
    /\ project.lotWidth = 10
    /\ L6Coverage(project, LookupJurisdiction(project.jurisdiction)) # <<>>
    /\ L6Coverage(project, LookupJurisdiction(project.jurisdiction))[1].status = "fail"
    /\ updateStats(project).totalArea > 0
    /\ updateStats(project).sumCoverage[2] # 1

=============================================================================
